---- MODULE Spec2Model ----
(***************************************************************************)
(* Model of the detection-and-association pipeline of the weather-chart    *)
(* spotter: the Pressure Locator and System Classifier (LH_spotter.py),    *)
(* the Deduplicator and Association Engine (connector.py) and the result   *)
(* assembly (LH_spotter.format_output_data, connector.update_output_data), *)
(* in the order detect_weather_elements (main_spotter.py) runs them.       *)
(*                                                                         *)
(* Conventions.  A pixel position is a pair <<x, y>>.  A confidence is an  *)
(* integer number of hundredths (0.3 is 30).  A recognised text is a       *)
(* sequence of one-character strings.  A Euclidean distance is carried as  *)
(* its square: the code only compares distances with each other and with   *)
(* a cutoff, and the square root is strictly monotonic on these integers.  *)
(***************************************************************************)
EXTENDS Integers, Sequences, FiniteSets, TLC

VARIABLES
    pc,                   \* position in detect_weather_elements
    img_size,             \* <<width, height>> of the image
    x_markers,            \* pooled DiscontinuityCandidates
    num_results,          \* tokens returned so far by the full-image digit scan
    pressure_values,      \* PressureReadings
    lh_i,                 \* number of PressureReadings the classifier has visited
    ocr_out,              \* outcome of the last L/H recognition call
    found_marker,         \* the classifier's found_marker of the last visited reading
    left_right_white,     \* << left_white, right_white >> the last fallback counted
    l_markers,            \* Low SystemMarkers
    h_markers,            \* High SystemMarkers
    valid_x_markers,      \* input of the Association Engine
    l_markers_updated,    \* copies of l_markers with associated_x / assigned
    h_markers_updated,    \* copies of h_markers with associated_x / assigned
    possible_connections, \* sorted list of pairings
    conn_i,               \* number of pairings the association loop has visited
    used_x_markers,       \* identities of consumed candidates
    connected_x_markers,  \* committed associations, in commit order
    output_data,          \* the output record
    once_markers,         \* consolidate_x_markers(x_markers)
    twice_markers,        \* consolidate_x_markers(once_markers)
    scan_raised,          \* the full-image digit recognition call raised
    mask_files,           \* main: number of mask files found
    file_i,               \* main: number of files the loop has attempted
    attempted,            \* main: the attempts made, in order, and how each ended
    processed_count,      \* main: processed_count
    error_count,          \* main: error_count
    csv_rows,             \* main: data rows of the CSV, each the file it came from
    header_probe,         \* the last header decision a scanning stage took
    web,                  \* loader: what each page holds
    ld_pc,                \* loader: position in get_map_links / get_soup
    ld_url,               \* loader: the page being fetched
    ld_outcomes,          \* loader: outcomes of the requests of this get_soup call
    ld_sleeps,            \* loader: time.sleep calls of this get_soup call
    ld_soup,              \* loader: what get_soup returned
    ld_links,             \* loader: map_links collected so far
    ld_depth,             \* loader: get_map_links calls entered
    existing_x_positions, \* x_spotter: the caller's list of known positions
    is_sensitive,         \* process_components: the pass
    comp_i,               \* process_components: components examined by both passes
    last_component,       \* process_components: the last component and its fate
    markers_found,        \* process_components: markers_found of the pass
    cc_x_markers,         \* detect_small_connected_components: cc_x_markers
    known_on_entry,       \* find_isolated_x_markers: the caller's list at the call
    sensitive_mask,       \* find_isolated_x_markers: foreground pixels of the mask
    scan_i,               \* find_isolated_x_markers: grid points visited
    isolated_x_markers    \* find_isolated_x_markers: isolated_x_markers

vars == << pc, img_size, x_markers, num_results, pressure_values, lh_i, ocr_out,
           found_marker, left_right_white, l_markers, h_markers, valid_x_markers, l_markers_updated,
           h_markers_updated, possible_connections, conn_i, used_x_markers,
           connected_x_markers, output_data, once_markers, twice_markers,
           scan_raised, mask_files, file_i, attempted, processed_count,
           error_count, csv_rows, header_probe, web, ld_pc, ld_url, ld_outcomes,
           ld_sleeps, ld_soup, ld_links, ld_depth, existing_x_positions,
           is_sensitive, comp_i, last_component, markers_found, cc_x_markers,
           known_on_entry, sensitive_mask, scan_i, isolated_x_markers >>

lhVars == << num_results, pressure_values, lh_i, ocr_out, found_marker, left_right_white,
             l_markers, h_markers >>

connVars == << valid_x_markers, l_markers_updated, h_markers_updated,
               possible_connections, conn_i, used_x_markers, connected_x_markers >>

dedupVars == << once_markers, twice_markers >>

batchVars == << mask_files, file_i, attempted, processed_count, error_count,
                csv_rows >>

hdrVars == << header_probe >>

loaderVars == << web, ld_pc, ld_url, ld_outcomes, ld_sleeps, ld_soup, ld_links,
                 ld_depth >>

\* the state outside detect_weather_elements
otherVars == << batchVars, hdrVars, loaderVars >>

\* the state of the detectors of x_spotter.py
ccVars == << is_sensitive, comp_i, last_component, markers_found, cc_x_markers >>

isoVars == << known_on_entry, sensitive_mask, scan_i, isolated_x_markers >>

xsVars == << existing_x_positions, ccVars, isoVars >>

auxVars == << scan_raised, xsVars, otherVars >>

\* the state of detect_weather_elements
detectVars == << img_size, x_markers, output_data, lhVars, connVars, dedupVars,
                 scan_raised, xsVars >>

\* the state of detect_weather_elements after the detectors
pipelineVars == << x_markers, output_data, lhVars, connVars, dedupVars, scan_raised >>

(***************************************************************************)
(* Bounds of the model.                                                    *)
(***************************************************************************)
MaxTokens == 2

MaxX == 3

(***************************************************************************)
(* Program constants.                                                      *)
(***************************************************************************)
LH_ABOVE_PRESSURE_DISTANCE == 20

MAX_X_TO_LH_DISTANCE == 100

search_size == 20

max_distance == 10

BoxMargin == 3

MinPressure == 950

MaxPressure == 1050

MinDigitProb == 30

MinGlyphProb == 10

HeuristicProb == 50

None == [none |-> TRUE]

(***************************************************************************)
(* Arithmetic and sequence helpers.                                        *)
(***************************************************************************)
Max(a, b) == IF a >= b THEN a ELSE b

Min(a, b) == IF a <= b THEN a ELSE b

\* Python's int(a / b) for b > 0: true division, then truncation toward zero.
IntDiv(a, b) == IF a >= 0 THEN a \div b ELSE -((-a) \div b)

SeqToSet(s) == { s[i] : i \in 1..Len(s) }

RECURSIVE SumSeq(_)
SumSeq(s) == IF s = <<>> THEN 0 ELSE Head(s) + SumSeq(Tail(s))

MinOf(S) == CHOOSE m \in S : \A n \in S : m <= n

MaxOf(S) == CHOOSE m \in S : \A n \in S : m >= n

\* Number of elements Python's a[lo:hi] selects from an axis of length n
\* (a negative index counts from the end of the axis).
SliceIndex(i, n) == IF i < 0 THEN Max(0, n + i) ELSE Min(i, n)

SliceLen(lo, hi, n) == Max(0, SliceIndex(hi, n) - SliceIndex(lo, n))

calculate_distance_sq(pos1, pos2) ==
    (pos1[1] - pos2[1]) * (pos1[1] - pos2[1]) + (pos1[2] - pos2[2]) * (pos1[2] - pos2[2])

\* An axis-aligned quadrilateral in the recognizer's corner order
\* (top_left, top_right, bottom_right, bottom_left).
Quad(x1, y1, x2, y2) == << <<x1, y1>>, <<x2, y1>>, <<x2, y2>>, <<x1, y2>> >>

(***************************************************************************)
(* Pressure Locator: LH_spotter.detect_lh_markers, step 1.                 *)
(***************************************************************************)
DigitChars == << "0", "1", "2", "3", "4", "5", "6", "7", "8", "9" >>

IsDigit(c) == \E d \in 1..10 : DigitChars[d] = c

DigitVal(c) == (CHOOSE d \in 1..10 : DigitChars[d] = c) - 1

\* re.match(r'^\d{3,4}$', text)
MatchesPressurePattern(text) ==
    /\ Len(text) >= 3
    /\ Len(text) <= 4
    /\ \A i \in 1..Len(text) : IsDigit(text[i])

\* int(text) of a digit string
RECURSIVE ParseInt(_)
ParseInt(text) ==
    IF text = <<>> THEN 0
    ELSE 10 * ParseInt(SubSeq(text, 1, Len(text) - 1)) + DigitVal(text[Len(text)])

\* line 51 without the upper bound
InPressureBandNoUpper(value) == MinPressure <= value

InPressureBand(value) == MinPressure <= value /\ value <= MaxPressure

BBoxCenter(bbox) ==
    << IntDiv(bbox[1][1] + bbox[3][1], 2), IntDiv(bbox[1][2] + bbox[3][2], 2) >>

\* center_y < height * 0.11 and center_x < width * 0.38
InHeader(pos, size) ==
    /\ pos[2] * 100 < size[2] * 11
    /\ pos[1] * 100 < size[1] * 38

AcceptsToken(tok, size) ==
    /\ ~(tok.prob < MinDigitProb)
    /\ MatchesPressurePattern(tok.text)
    /\ InPressureBand(ParseInt(tok.text))
    /\ ~InHeader(BBoxCenter(tok.bbox), size)

PressureReading(tok) ==
    [ value       |-> ParseInt(tok.text),
      position    |-> BBoxCenter(tok.bbox),
      bbox        |-> tok.bbox,
      rect_points |-> tok.bbox,
      prob        |-> tok.prob,
      assigned    |-> FALSE ]

(***************************************************************************)
(* System Classifier: LH_spotter.detect_lh_markers, step 2.                *)
(***************************************************************************)
\* lines 91-94 with the right edge a whole search_size from the centre
SearchWindowWide(pos, size) ==
    LET search_center_x == pos[1]
        search_center_y == pos[2] - LH_ABOVE_PRESSURE_DISTANCE
    IN  << Max(0, search_center_x - search_size \div 2),
           Max(0, search_center_y - search_size \div 2),
           Min(size[1], search_center_x + search_size),
           Min(size[2], search_center_y + search_size \div 2) >>

\* << x1, y1, x2, y2 >> of the search window of a reading at (px, py)
SearchWindow(pos, size) ==
    LET search_center_x == pos[1]
        search_center_y == pos[2] - LH_ABOVE_PRESSURE_DISTANCE
    IN  << Max(0, search_center_x - search_size \div 2),
           Max(0, search_center_y - search_size \div 2),
           Min(size[1], search_center_x + search_size \div 2),
           Min(size[2], search_center_y + search_size \div 2) >>

\* shape of roi = img[y1:y2, x1:x2] as << rows, columns >>
RoiShape(win, size) ==
    << SliceLen(win[2], win[4], size[2]), SliceLen(win[1], win[3], size[1]) >>

\* roi.size with a negative slice bound read as an empty slice
RoiSizeNoWrap(win, size) == Max(0, win[4] - win[2]) * Max(0, win[3] - win[1])

RoiSize(win, size) == RoiShape(win, size)[1] * RoiShape(win, size)[2]

\* line 122 with >= for >
UsableGlyphOrEqual(tok, best_prob) ==
    tok.prob >= best_prob /\ tok.text \in { <<"L">>, <<"H">> }

UsableGlyph(tok, best_prob) == tok.prob > best_prob /\ tok.text \in { <<"L">>, <<"H">> }

\* the loop of lines 118-124: index of best_result in results, 0 when none
RECURSIVE BestResultFrom(_, _, _, _)
BestResultFrom(results, i, best_prob, best_i) ==
    IF i > Len(results) THEN best_i
    ELSE IF UsableGlyph(results[i], best_prob)
         THEN BestResultFrom(results, i + 1, results[i].prob, i)
         ELSE BestResultFrom(results, i + 1, best_prob, best_i)

BestResult(results) == BestResultFrom(results, 1, MinGlyphProb, 0)

OcrMarker(pressure, win, tok) ==
    [ position             |-> << IntDiv(2 * win[1] + tok.bbox[1][1] + tok.bbox[3][1], 2),
                                  IntDiv(2 * win[2] + tok.bbox[1][2] + tok.bbox[3][2], 2) >>,
      text                 |-> tok.text[1],
      bbox                 |-> [ j \in 1..4 |-> << win[1] + tok.bbox[j][1],
                                                   win[2] + tok.bbox[j][2] >> ],
      prob                 |-> tok.prob,
      value                |-> pressure.value,
      marker_rect_points   |-> Quad(win[1], win[2], win[3], win[4]),
      pressure_position    |-> pressure.position,
      pressure_rect_points |-> pressure.rect_points,
      pattern_analyzed     |-> FALSE ]

\* line 159 with >= for >
HeuristicTextOrEqual(left_white, right_white) ==
    IF 2 * left_white >= 3 * right_white THEN "L" ELSE "H"

\* left_white > right_white * 1.5
HeuristicText(left_white, right_white) ==
    IF 2 * left_white > 3 * right_white THEN "L" ELSE "H"

\* the fallback of lines 148-172 with the flag of line 171 left out
PatternMarkerUnflagged(pressure, win, left_white, right_white) ==
    [ position             |-> << pressure.position[1],
                                  pressure.position[2] - LH_ABOVE_PRESSURE_DISTANCE >>,
      text                 |-> HeuristicText(left_white, right_white),
      bbox                 |-> <<>>,
      prob                 |-> HeuristicProb,
      value                |-> pressure.value,
      marker_rect_points   |-> Quad(win[1], win[2], win[3], win[4]),
      pressure_position    |-> pressure.position,
      pressure_rect_points |-> pressure.rect_points,
      pattern_analyzed     |-> FALSE ]

PatternMarker(pressure, win, left_white, right_white) ==
    [ position             |-> << pressure.position[1],
                                  pressure.position[2] - LH_ABOVE_PRESSURE_DISTANCE >>,
      text                 |-> HeuristicText(left_white, right_white),
      bbox                 |-> <<>>,
      prob                 |-> HeuristicProb,
      value                |-> pressure.value,
      marker_rect_points   |-> Quad(win[1], win[2], win[3], win[4]),
      pressure_position    |-> pressure.position,
      pressure_rect_points |-> pressure.rect_points,
      pattern_analyzed     |-> TRUE ]

(***************************************************************************)
(* Deduplicator: connector.consolidate_x_markers, get_valid_x_markers.     *)
(***************************************************************************)
\* Python's stable sort of s by the keys key[1..Len(s)]
StableSort(s, key) ==
    LET n == Len(s)
        rank(i) == 1 + Cardinality({ j \in 1..n : \/ key[j] < key[i]
                                                  \/ key[j] = key[i] /\ j < i })
    IN  [ k \in 1..n |-> s[CHOOSE i \in 1..n : rank(i) = k] ]

\* sorted(x_markers, key=lambda x: x['position'][0])
SortByX(markers) ==
    StableSort(markers, [ i \in 1..Len(markers) |-> markers[i].position[1] ])

\* lines 56-63 with the mean rounded to the nearest integer
ConsolidateGroupRounded(current_group) ==
    LET n == Len(current_group)
        sum_x == SumSeq([ i \in 1..n |-> current_group[i].position[1] ])
        sum_y == SumSeq([ i \in 1..n |-> current_group[i].position[2] ])
    IN  [ current_group[1] EXCEPT
            !.position = << IntDiv(2 * sum_x + n, 2 * n), IntDiv(2 * sum_y + n, 2 * n) >> ]

\* the marker a group is consolidated to (lines 56-63 and 72-79)
ConsolidateGroup(current_group) ==
    LET n == Len(current_group)
        avg_x == IntDiv(SumSeq([ i \in 1..n |-> current_group[i].position[1] ]), n)
        avg_y == IntDiv(SumSeq([ i \in 1..n |-> current_group[i].position[2] ]), n)
    IN  [ current_group[1] EXCEPT !.position = << avg_x, avg_y >> ]

\* line 49 joining only candidates of the origin of the group's first member
IsCloseSameOrigin(marker, current_group) ==
    /\ marker.text = current_group[1].text
    /\ \E g \in 1..Len(current_group) :
           calculate_distance_sq(marker.position, current_group[g].position)
               <= max_distance * max_distance

\* line 49 comparing with the first member of the group only
IsCloseToFirst(marker, current_group) ==
    calculate_distance_sq(marker.position, current_group[1].position)
        <= max_distance * max_distance

IsClose(marker, current_group) ==
    \E g \in 1..Len(current_group) :
        calculate_distance_sq(marker.position, current_group[g].position)
            <= max_distance * max_distance

\* the loop of lines 43-68 from sorted_markers[i] on, and the last group
RECURSIVE ConsolidateFrom(_, _, _, _)
ConsolidateFrom(sorted_markers, i, current_group, consolidated_markers) ==
    IF i > Len(sorted_markers)
    THEN Append(consolidated_markers, ConsolidateGroup(current_group))
    ELSE IF IsClose(sorted_markers[i], current_group)
         THEN ConsolidateFrom(sorted_markers, i + 1,
                              Append(current_group, sorted_markers[i]),
                              consolidated_markers)
         ELSE ConsolidateFrom(sorted_markers, i + 1, << sorted_markers[i] >>,
                              Append(consolidated_markers, ConsolidateGroup(current_group)))

consolidate_x_markers(markers) ==
    IF markers = <<>> THEN <<>>
    ELSE LET sorted_markers == SortByX(markers)
         IN  ConsolidateFrom(sorted_markers, 2, << sorted_markers[1] >>, <<>>)

\* the groups the loop of lines 43-68 forms, each the places its members have
\* in sorted_markers
RECURSIVE GroupsFrom(_, _, _, _)
GroupsFrom(sorted_markers, i, current_group, groups) ==
    IF i > Len(sorted_markers)
    THEN Append(groups, current_group)
    ELSE IF IsClose(sorted_markers[i],
                    [ g \in 1..Len(current_group) |-> sorted_markers[current_group[g]] ])
         THEN GroupsFrom(sorted_markers, i + 1, Append(current_group, i), groups)
         ELSE GroupsFrom(sorted_markers, i + 1, << i >>, Append(groups, current_group))

consolidation_groups(markers) ==
    IF markers = <<>> THEN <<>>
    ELSE GroupsFrom(SortByX(markers), 2, << 1 >>, <<>>)

\* (x_min-3, y_min-3, x_max+3, y_max+3) of a list of rectangle points
ExpandedBox(rect_points) ==
    LET xs == { rect_points[i][1] : i \in 1..Len(rect_points) }
        ys == { rect_points[i][2] : i \in 1..Len(rect_points) }
    IN  << MinOf(xs) - BoxMargin, MinOf(ys) - BoxMargin,
           MaxOf(xs) + BoxMargin, MaxOf(ys) + BoxMargin >>

is_point_inside_box(point, box) ==
    /\ box[1] <= point[1]
    /\ point[1] <= box[3]
    /\ box[2] <= point[2]
    /\ point[2] <= box[4]

\* the boxes get_valid_x_markers collects from l_markers + h_markers
MarkerBoxes(markers) ==
    { ExpandedBox(markers[i].pressure_rect_points) : i \in 1..Len(markers) }
        \cup { ExpandedBox(markers[i].marker_rect_points) : i \in 1..Len(markers) }

IsValidX(x_marker, boxes) ==
    ~ \E box \in boxes : is_point_inside_box(x_marker.position, box)

get_valid_x_markers(xm, lm, hm) ==
    LET boxes == MarkerBoxes(lm \o hm)
    IN  SelectSeq(consolidate_x_markers(xm), LAMBDA m : IsValidX(m, boxes))

(***************************************************************************)
(* Association Engine: connector.connect_x_markers_to_lh.                  *)
(* A candidate of valid_x_markers is identified by its index there (the    *)
(* code keys used_x_markers by id(x_marker), and the consolidated markers  *)
(* are distinct live objects); a target is << "L", j >> or << "H", j >>,   *)
(* the j-th marker of l_markers_updated or h_markers_updated.              *)
(***************************************************************************)
\* lines 146 and 152 with < for <=
WithinCutoffStrict(c) == c.dist < MAX_X_TO_LH_DISTANCE * MAX_X_TO_LH_DISTANCE

WithinCutoff(c) == c.dist <= MAX_X_TO_LH_DISTANCE * MAX_X_TO_LH_DISTANCE

ConnectionsTo(xi, x_pos, markers, kind) ==
    SelectSeq([ j \in 1..Len(markers) |->
                  [ x      |-> xi,
                    target |-> << kind, j >>,
                    dist   |-> calculate_distance_sq(x_pos, markers[j].position),
                    is_l   |-> kind = "L" ] ],
              WithinCutoff)

\* the loops of lines 141-154 from valid[i] on
RECURSIVE ConnectionsFrom(_, _, _, _)
ConnectionsFrom(valid, i, lm, hm) ==
    IF i > Len(valid) THEN <<>>
    ELSE ConnectionsTo(i, valid[i].position, lm, "L")
           \o ConnectionsTo(i, valid[i].position, hm, "H")
           \o ConnectionsFrom(valid, i + 1, lm, hm)

\* line 157 with an ordering that puts the later of two equal keys first
SortByDistanceTiesReversed(connections) ==
    LET n == Len(connections)
    IN  StableSort([ i \in 1..n |-> connections[n + 1 - i] ],
                   [ i \in 1..n |-> connections[n + 1 - i].dist ])

\* line 157 left out
SortByDistanceSkipped(connections) == connections

\* line 157 sorting by decreasing distance
SortByDistanceDescending(connections) ==
    StableSort(connections, [ i \in 1..Len(connections) |-> 0 - connections[i].dist ])

\* possible_connections.sort(key=lambda item: item[2])
SortByDistance(connections) ==
    StableSort(connections, [ i \in 1..Len(connections) |-> connections[i].dist ])

\* the places the elements of sorted(x_markers, ...) have in x_markers
SortedOrder(markers) ==
    StableSort([ i \in 1..Len(markers) |-> i ],
               [ i \in 1..Len(markers) |-> markers[i].position[1] ])

\* x_markers had lines 56 and 73 written the mean position to current_group[0]
\* itself
ConsolidatedInPlace(markers) ==
    LET order  == SortedOrder(markers)
        groups == consolidation_groups(markers)
        merged == consolidate_x_markers(markers)
    IN  [ i \in 1..Len(markers) |->
            IF \E g \in 1..Len(groups) : order[groups[g][1]] = i
            THEN LET g == CHOOSE g \in 1..Len(groups) : order[groups[g][1]] = i
                 IN  [ markers[i] EXCEPT !.position = merged[g].position ]
            ELSE markers[i] ]

\* the callee writing to the caller's own records
CallerSeesWritten(own, written) == written

\* what the caller's list holds once the callee has written to the copies
\* it made of the records (current_group[0].copy(), lines 56 and 73;
\* dict(marker), lines 128-129; x_marker.copy(), line 167)
CallerSees(own, written) == own

\* dict(marker) with associated_x and assigned added (lines 129-136)
UpdatedCopy(marker) == marker @@ [ associated_x |-> <<>>, assigned |-> FALSE ]

TargetMarker(target, lmu, hmu) ==
    IF target[1] = "L" THEN lmu[target[2]] ELSE hmu[target[2]]

\* line 166 without the test of the target's assigned flag
CanCommitIgnoringAssigned(c, used, lmu, hmu) == c.x \notin used

\* line 166 with High systems never claimed
CanCommitLowOnly(c, used, lmu, hmu) ==
    /\ c.is_l
    /\ c.x \notin used
    /\ ~TargetMarker(c.target, lmu, hmu).assigned

\* the condition of line 166
CanCommit(c, used, lmu, hmu) ==
    /\ c.x \notin used
    /\ ~TargetMarker(c.target, lmu, hmu).assigned

ConnectedX(x_marker, target_marker, c) ==
    x_marker @@ [ associated_to |-> target_marker.position,
                  is_l          |-> c.is_l,
                  distance      |-> c.dist ]

Claim(marker, connected_x) ==
    [ marker EXCEPT !.associated_x = Append(@, connected_x), !.assigned = TRUE ]

(***************************************************************************)
(* Result Assembler: LH_spotter.format_output_data and                     *)
(* connector.update_output_data.                                           *)
(***************************************************************************)
\* the record with the reading's position for the system's centre
SystemRecordAtPressure(marker) ==
    [ center            |-> marker.pressure_position,
      pressure          |-> marker.value,
      text              |-> marker.text,
      pressure_position |-> marker.pressure_position,
      pattern_analyzed  |-> marker.pattern_analyzed,
      prob              |-> marker.prob,
      x_points          |-> <<>> ]

SystemRecord(marker) ==
    [ center            |-> marker.position,
      pressure          |-> marker.value,
      text              |-> marker.text,
      pressure_position |-> marker.pressure_position,
      pattern_analyzed  |-> marker.pattern_analyzed,
      prob              |-> marker.prob,
      x_points          |-> <<>> ]

\* format_output_data emitting a system without value when it is given none
format_output_dataPlaceholder(lm, hm) ==
    [ l_systems |-> IF lm = <<>> /\ hm = <<>>
                    THEN << [ center |-> << 0, 0 >>, pressure |-> 0, text |-> "L",
                              pressure_position |-> << 0, 0 >>,
                              pattern_analyzed |-> FALSE, prob |-> HeuristicProb,
                              x_points |-> <<>> ] >>
                    ELSE [ i \in 1..Len(lm) |-> SystemRecord(lm[i]) ],
      h_systems |-> [ i \in 1..Len(hm) |-> SystemRecord(hm[i]) ],
      detection_parameters |->
          [ lh_above_pressure_distance |-> LH_ABOVE_PRESSURE_DISTANCE ] ]

format_output_data(lm, hm) ==
    [ l_systems |-> [ i \in 1..Len(lm) |-> SystemRecord(lm[i]) ],
      h_systems |-> [ i \in 1..Len(hm) |-> SystemRecord(hm[i]) ],
      detection_parameters |->
          [ lh_above_pressure_distance |-> LH_ABOVE_PRESSURE_DISTANCE ] ]

\* lines 219 and 224 reading the system's position off each association
XPointsAssociatedTo(marker) ==
    [ k \in 1..Len(marker.associated_x) |-> marker.associated_x[k].associated_to ]

XPoints(marker) ==
    [ k \in 1..Len(marker.associated_x) |-> marker.associated_x[k].position ]

UpdateSystems(systems, markers) ==
    [ i \in 1..Len(systems) |->
        IF i <= Len(markers)
        THEN [ systems[i] EXCEPT !.x_points = XPoints(markers[i]) ]
        ELSE systems[i] ]

update_output_data(data, lmu, hmu) ==
    [ l_systems |-> UpdateSystems(data.l_systems, lmu),
      h_systems |-> UpdateSystems(data.h_systems, hmu),
      detection_parameters |->
          data.detection_parameters
              @@ [ max_x_to_lh_distance |-> MAX_X_TO_LH_DISTANCE ] ]

(***************************************************************************)
(* Inputs.  The recognizer and the detectors are external collaborators:   *)
(* what they return is drawn from the sets below.                          *)
(***************************************************************************)
Token(text, x1, y1, x2, y2, prob) ==
    [ bbox |-> Quad(x1, y1, x2, y2), text |-> text, prob |-> prob ]

\* the image sizes of the pipeline runs, and those of the classifier runs
PipelineSizes == { <<120, 80>> }

ClassifierSizes == { <<120, 80>>, <<200, 100>> }

\* digit tokens of the pipeline runs: two readings whose windows lie in the
\* image and one whose window is clipped away
PipelineTokens ==
    { Token(<<"9", "9", "8">>, 50, 55, 70, 65, 60),
      Token(<<"1", "0", "0", "0">>, 105, 50, 119, 60, 90),
      Token(<<"1", "0", "2", "0">>, 40, 5, 60, 15, 50) }

\* digit tokens of the classifier runs: every rejection rule and every way
\* the search window can meet the image edge
ClassifierTokens ==
    { Token(<<"9", "9", "8">>, 50, 55, 70, 65, 30),
      Token(<<"9", "9", "8">>, 50, 55, 70, 65, 29),
      Token(<<"9", "5", "0">>, 0, 55, 10, 65, 90),
      Token(<<"1", "0", "5", "0">>, 40, 5, 60, 15, 50),
      Token(<<"0", "9", "9", "9">>, 110, 50, 120, 60, 70),
      Token(<<"1", "0", "1", "0">>, 50, 0, 70, 8, 60),
      Token(<<"1", "0", "0", "5">>, 0, 0, 20, 10, 60),
      Token(<<"1", "2", "0", "0">>, 50, 55, 70, 65, 80),
      Token(<<"9", "4", "9">>, 50, 55, 70, 65, 80),
      Token(<<"1", "0", "5", "1">>, 50, 55, 70, 65, 80),
      Token(<<"9", "9">>, 50, 55, 70, 65, 80),
      Token(<<"1", "0", "0", "0", "0">>, 50, 55, 70, 65, 80),
      Token(<<"9", "L", "8">>, 50, 55, 70, 65, 80) }

Raised == [ raised |-> TRUE, results |-> <<>> ]

Returned(results) == [ raised |-> FALSE, results |-> results ]

\* outcomes of the L/H recognition call of the pipeline runs
PipelineGlyphs ==
    { Returned(<<>>),
      Returned(<< Token(<<"L">>, 2, 1, 9, 8, 60) >>) }

\* outcomes of the L/H recognition call of the classifier runs
ClassifierGlyphs ==
    { Raised,
      Returned(<<>>),
      Returned(<< Token(<<"L">>, 2, 1, 9, 8, 60) >>),
      Returned(<< Token(<<"H">>, 1, 1, 4, 8, 50), Token(<<"L">>, 5, 1, 9, 8, 50) >>),
      Returned(<< Token(<<"L">>, 2, 2, 8, 8, 10) >>),
      Returned(<< Token(<<"L", "H">>, 0, 0, 10, 10, 90), Token(<<"H">>, 6, 2, 10, 8, 11) >>),
      Returned(<< Token(<<"L">>, 1, 1, 4, 8, 30), Token(<<"H">>, 5, 1, 9, 8, 70) >>) }

\* << left_white, right_white >> of the binarized window, pipeline runs
PipelineWhiteCounts == { <<0, 0>>, <<4, 2>> }

\* << left_white, right_white >> of the binarized window, classifier runs
WhiteCounts == { <<0, 0>>, <<3, 2>>, <<4, 2>> }

\* a token box returned for a region lies inside that region
FitsRoi(out, shape) ==
    \A i \in 1..Len(out.results) :
        /\ out.results[i].bbox[3][2] <= shape[1]
        /\ out.results[i].bbox[3][1] <= shape[2]

\* a half of the window holds no more foreground pixels than it has pixels
FitsHalves(wc, shape) ==
    /\ wc[1] <= shape[1] * (shape[2] \div 2)
    /\ wc[2] <= shape[1] * (shape[2] - shape[2] \div 2)

(***************************************************************************)
(* Actions of detect_lh_markers.                                           *)
(***************************************************************************)
\* one iteration of the loop over num_results (lines 46-77)
ScanToken(Tokens) ==
    /\ pc = "scan"
    /\ Len(num_results) < MaxTokens
    /\ \E tok \in Tokens :
        /\ num_results' = Append(num_results, tok)
        /\ pressure_values' = IF AcceptsToken(tok, img_size)
                              THEN Append(pressure_values, PressureReading(tok))
                              ELSE pressure_values
    /\ UNCHANGED << pc, img_size, x_markers, lh_i, ocr_out, found_marker,
                    left_right_white, l_markers, h_markers, output_data >>
    /\ UNCHANGED connVars
    /\ UNCHANGED dedupVars
    /\ UNCHANGED auxVars

\* the scan has consumed the recognizer's list
ScanDone ==
    /\ pc = "scan"
    /\ pc' = "classify"
    /\ UNCHANGED << img_size, x_markers, output_data >>
    /\ UNCHANGED lhVars
    /\ UNCHANGED connVars
    /\ UNCHANGED dedupVars
    /\ UNCHANGED auxVars

\* reader.readtext raises at line 44: the handler of lines 78-79 prints, and
\* step 2 starts with no reading
ScanRaise ==
    /\ pc = "scan"
    /\ num_results = <<>>
    /\ scan_raised' = TRUE
    /\ pc' = "classify"
    /\ UNCHANGED << img_size, x_markers, output_data >>
    /\ UNCHANGED lhVars
    /\ UNCHANGED connVars
    /\ UNCHANGED dedupVars
    /\ UNCHANGED xsVars
    /\ UNCHANGED otherVars

\* one iteration of the loop over pressure_values (lines 83-200)
Classify(Glyphs, Counts) ==
    /\ pc = "classify"
    /\ lh_i < Len(pressure_values)
    /\ LET pressure == pressure_values[lh_i + 1]
           win      == SearchWindow(pressure.position, img_size)
           shape    == RoiShape(win, img_size)
       IN  IF RoiSize(win, img_size) = 0
           THEN /\ lh_i' = lh_i + 1
                /\ UNCHANGED << pressure_values, ocr_out, found_marker,
                                left_right_white, l_markers, h_markers >>
           ELSE \E out \in Glyphs, wc \in Counts :
                /\ FitsRoi(out, shape)
                /\ FitsHalves(wc, shape)
                /\ LET best   == IF out.raised THEN 0 ELSE BestResult(out.results)
                       marker == IF best # 0
                                 THEN OcrMarker(pressure, win, out.results[best])
                                 ELSE PatternMarker(pressure, win, wc[1], wc[2])
                   IN  /\ ocr_out' = out
                       /\ found_marker' = marker
                       /\ left_right_white' = IF best # 0 THEN left_right_white ELSE wc
                       /\ l_markers' = IF marker.text = "L"
                                       THEN Append(l_markers, marker) ELSE l_markers
                       /\ h_markers' = IF marker.text = "L"
                                       THEN h_markers ELSE Append(h_markers, marker)
                       /\ pressure_values' =
                              [ pressure_values EXCEPT ![lh_i + 1].assigned = TRUE ]
                       /\ lh_i' = lh_i + 1
    /\ UNCHANGED << pc, img_size, x_markers, num_results, output_data >>
    /\ UNCHANGED connVars
    /\ UNCHANGED dedupVars
    /\ UNCHANGED auxVars

\* detect_lh_markers returns (line 215)
ClassifyDone ==
    /\ pc = "classify"
    /\ lh_i = Len(pressure_values)
    /\ pc' = "connect"
    /\ UNCHANGED << img_size, x_markers, output_data >>
    /\ UNCHANGED lhVars
    /\ UNCHANGED connVars
    /\ UNCHANGED dedupVars
    /\ UNCHANGED auxVars

EmptyOutput ==
    [ l_systems |-> <<>>, h_systems |-> <<>>, detection_parameters |-> <<>> ]

\* detect_weather_elements has not produced anything yet
DetectIdle ==
    /\ x_markers = <<>>
    /\ num_results = <<>>
    /\ pressure_values = <<>>
    /\ lh_i = 0
    /\ ocr_out = Returned(<<>>)
    /\ found_marker = None
    /\ left_right_white = None
    /\ l_markers = <<>>
    /\ h_markers = <<>>
    /\ valid_x_markers = <<>>
    /\ l_markers_updated = <<>>
    /\ h_markers_updated = <<>>
    /\ possible_connections = <<>>
    /\ conn_i = 0
    /\ used_x_markers = {}
    /\ connected_x_markers = <<>>
    /\ output_data = EmptyOutput
    /\ once_markers = <<>>
    /\ twice_markers = <<>>
    /\ scan_raised = FALSE

\* no detector of x_spotter.py has been entered
SpotterIdle ==
    /\ existing_x_positions = <<>>
    /\ is_sensitive = FALSE
    /\ comp_i = 0
    /\ last_component = None
    /\ markers_found = <<>>
    /\ cc_x_markers = <<>>
    /\ known_on_entry = <<>>
    /\ sensitive_mask = {}
    /\ scan_i = 0
    /\ isolated_x_markers = <<>>

\* main has not been entered
BatchIdle ==
    /\ mask_files = 0
    /\ file_i = 0
    /\ attempted = <<>>
    /\ processed_count = 0
    /\ error_count = 0
    /\ csv_rows = <<>>

\* no header decision was taken yet
HeaderIdle == header_probe = None

\* the scraper has not been started
LoaderIdle ==
    /\ web = <<>>
    /\ ld_pc = "idle"
    /\ ld_url = 0
    /\ ld_outcomes = <<>>
    /\ ld_sleeps = 0
    /\ ld_soup = None
    /\ ld_links = <<>>
    /\ ld_depth = 0

InitRest ==
    /\ DetectIdle
    /\ SpotterIdle
    /\ BatchIdle
    /\ HeaderIdle
    /\ LoaderIdle

\* detect_lh_markers on its own
InitLH ==
    /\ pc = "scan"
    /\ img_size \in ClassifierSizes
    /\ InitRest

NextLH ==
    \/ ScanToken(ClassifierTokens)
    \/ ScanDone
    \/ ScanRaise
    \/ Classify(ClassifierGlyphs, WhiteCounts)
    \/ ClassifyDone

SpecLH == InitLH /\ [][NextLH]_vars

(***************************************************************************)
(* The Discontinuity Detector's pooled output (main_spotter.py, lines      *)
(* 84-100): candidates are appended in discovery order.                    *)
(***************************************************************************)
XMarker(pos) ==
    [ position |-> pos, text |-> "X (shape)", bbox |-> << pos[1] - 2, pos[2] - 2, 4, 4 >> ]

\* candidate positions of the pipeline runs
PipelinePositions == { <<50, 10>>, <<80, 45>>, <<60, 60>>, <<70, 25>> }

\* candidate positions of the deduplication runs
DedupPositions ==
    { <<50, 10>>, <<50, 20>>, <<50, 28>>, <<59, 15>>, <<52, 40>>, <<80, 45>>, <<84, 45>> }

DetectX(Positions) ==
    /\ pc = "detect_x"
    /\ Len(x_markers) < MaxX
    /\ \E pos \in Positions : x_markers' = Append(x_markers, XMarker(pos))
    /\ UNCHANGED << pc, img_size, output_data >>
    /\ UNCHANGED lhVars
    /\ UNCHANGED connVars
    /\ UNCHANGED dedupVars
    /\ UNCHANGED auxVars

\* the detectors are done; detect_lh_markers is called (line 103)
DetectXDone ==
    /\ pc = "detect_x"
    /\ pc' = "scan"
    /\ UNCHANGED << img_size, x_markers, output_data >>
    /\ UNCHANGED lhVars
    /\ UNCHANGED connVars
    /\ UNCHANGED dedupVars
    /\ UNCHANGED auxVars

(***************************************************************************)
(* Actions of connect_x_markers_to_lh and of the result assembly.          *)
(***************************************************************************)
\* lines 127-159: validity filter, copies, pairings, sort
ConnectBegin ==
    /\ pc = "connect"
    /\ LET valid == get_valid_x_markers(x_markers, l_markers, h_markers)
           lmu   == [ i \in 1..Len(l_markers) |-> UpdatedCopy(l_markers[i]) ]
           hmu   == [ i \in 1..Len(h_markers) |-> UpdatedCopy(h_markers[i]) ]
       IN  /\ valid_x_markers' = valid
           /\ l_markers_updated' = lmu
           /\ h_markers_updated' = hmu
           /\ possible_connections' = SortByDistance(ConnectionsFrom(valid, 1, lmu, hmu))
           /\ x_markers' = CallerSees(x_markers, ConsolidatedInPlace(x_markers))
           /\ l_markers' = CallerSees(l_markers, lmu)
           /\ h_markers' = CallerSees(h_markers, hmu)
    /\ conn_i' = 0
    /\ used_x_markers' = {}
    /\ connected_x_markers' = <<>>
    /\ pc' = "connect_loop"
    /\ UNCHANGED << img_size, output_data >>
    /\ UNCHANGED << num_results, pressure_values, lh_i, ocr_out, found_marker,
                    left_right_white >>
    /\ UNCHANGED dedupVars
    /\ UNCHANGED auxVars

\* one iteration of the loop of lines 161-175
ConnectStep ==
    /\ pc = "connect_loop"
    /\ conn_i < Len(possible_connections)
    /\ LET c == possible_connections[conn_i + 1]
           target_marker == TargetMarker(c.target, l_markers_updated, h_markers_updated)
           connected_x == ConnectedX(valid_x_markers[c.x], target_marker, c)
           lmu == IF c.target[1] = "L"
                  THEN [ l_markers_updated EXCEPT
                           ![c.target[2]] = Claim(@, connected_x) ]
                  ELSE l_markers_updated
           hmu == IF c.target[1] = "L"
                  THEN h_markers_updated
                  ELSE [ h_markers_updated EXCEPT
                           ![c.target[2]] = Claim(@, connected_x) ]
       IN  IF CanCommit(c, used_x_markers, l_markers_updated, h_markers_updated)
           THEN /\ connected_x_markers' = Append(connected_x_markers, connected_x)
                /\ l_markers_updated' = lmu
                /\ h_markers_updated' = hmu
                /\ used_x_markers' = used_x_markers \cup { c.x }
                /\ valid_x_markers' =
                       [ valid_x_markers EXCEPT ![c.x] = CallerSees(@, connected_x) ]
                /\ l_markers' = CallerSees(l_markers, lmu)
                /\ h_markers' = CallerSees(h_markers, hmu)
           ELSE UNCHANGED << connected_x_markers, l_markers_updated,
                             h_markers_updated, used_x_markers, valid_x_markers,
                             l_markers, h_markers >>
    /\ conn_i' = conn_i + 1
    /\ UNCHANGED << pc, img_size, x_markers, possible_connections, output_data >>
    /\ UNCHANGED << num_results, pressure_values, lh_i, ocr_out, found_marker,
                    left_right_white >>
    /\ UNCHANGED dedupVars
    /\ UNCHANGED auxVars

\* connect_x_markers_to_lh returns; format_output_data and update_output_data
\* (main_spotter.py, lines 110-111)
Assemble ==
    /\ pc = "connect_loop"
    /\ conn_i = Len(possible_connections)
    /\ output_data' = update_output_data(format_output_data(l_markers, h_markers),
                                         l_markers_updated, h_markers_updated)
    /\ pc' = "done"
    /\ UNCHANGED << img_size, x_markers >>
    /\ UNCHANGED lhVars
    /\ UNCHANGED connVars
    /\ UNCHANGED dedupVars
    /\ UNCHANGED auxVars

\* detect_weather_elements
Init ==
    /\ pc = "detect_x"
    /\ img_size \in PipelineSizes
    /\ InitRest

Next ==
    \/ DetectX(PipelinePositions)
    \/ DetectXDone
    \/ ScanToken(PipelineTokens)
    \/ ScanDone
    \/ ScanRaise
    \/ Classify(PipelineGlyphs, PipelineWhiteCounts)
    \/ ClassifyDone
    \/ ConnectBegin
    \/ ConnectStep
    \/ Assemble

Spec == Init /\ [][Next]_vars

(***************************************************************************)
(* The Deduplicator run on a candidate list and again on its own output.   *)
(***************************************************************************)
ConsolidateTwice ==
    /\ pc = "detect_x"
    /\ once_markers' = consolidate_x_markers(x_markers)
    /\ twice_markers' = consolidate_x_markers(consolidate_x_markers(x_markers))
    /\ pc' = "consolidated"
    /\ UNCHANGED << img_size, x_markers, output_data >>
    /\ UNCHANGED lhVars
    /\ UNCHANGED connVars
    /\ UNCHANGED auxVars

InitDedup ==
    /\ pc = "detect_x"
    /\ img_size \in PipelineSizes
    /\ InitRest

NextDedup ==
    \/ DetectX(DedupPositions)
    \/ ConsolidateTwice

SpecDedup == InitDedup /\ [][NextDedup]_vars

(***************************************************************************)
(* The Deduplicator on candidates of several origins: the detectors tag    *)
(* what they find (x_spotter.py, lines 50, 135 and 191).                   *)
(***************************************************************************)
Tags == { "X (shape)", "X (CC)", "X (Isolated)" }

TaggedXMarker(pos, tag) == [ XMarker(pos) EXCEPT !.text = tag ]

CollapsePositions == { <<50, 10>>, <<50, 20>>, <<53, 13>>, <<59, 15>>, <<80, 45>> }

\* a detector appends a candidate of its origin
DetectTagged(Positions, Origins) ==
    /\ pc = "detect_x"
    /\ Len(x_markers) < MaxX
    /\ \E pos \in Positions, tag \in Origins :
           x_markers' = Append(x_markers, TaggedXMarker(pos, tag))
    /\ UNCHANGED << pc, img_size, output_data >>
    /\ UNCHANGED lhVars
    /\ UNCHANGED connVars
    /\ UNCHANGED dedupVars
    /\ UNCHANGED auxVars

DetectTaggedX == DetectTagged(CollapsePositions, Tags)

NextCollapse ==
    \/ DetectTaggedX
    \/ ConsolidateTwice

SpecCollapse == InitDedup /\ [][NextCollapse]_vars

(***************************************************************************)
(* detect_weather_elements on candidates that lie at equal distances from  *)
(* the systems.                                                            *)
(***************************************************************************)
\* <<84, 6>> is as far from <<55, 34>> as from <<112, 35>>; <<40, 45>> and
\* <<80, 45>> are equally far from <<60, 40>>
TiePositions == { <<84, 6>>, <<40, 45>>, <<80, 45>> }

NextTie ==
    \/ DetectX(TiePositions)
    \/ DetectXDone
    \/ ScanToken(PipelineTokens)
    \/ ScanDone
    \/ ScanRaise
    \/ Classify(PipelineGlyphs, PipelineWhiteCounts)
    \/ ClassifyDone
    \/ ConnectBegin
    \/ ConnectStep
    \/ Assemble

SpecTie == Init /\ [][NextTie]_vars

(***************************************************************************)
(* detect_weather_elements on candidates of several origins.               *)
(***************************************************************************)
\* every tag a detector gives (x_spotter.py, lines 50, 116, 128 and 191)
AllTags == { "X (shape)", "X (CC)", "X (Sensitive)", "X (Distorted)", "X (Isolated)" }

\* the tags of the runs
OriginTags == { "X (CC)", "X (Isolated)" }

\* <<40, 45>> and <<45, 48>> are within 10 pixels of each other
OriginPositions == { <<40, 45>>, <<45, 48>>, <<80, 45>> }

OriginTokens ==
    { Token(<<"9", "9", "8">>, 50, 55, 70, 65, 60),
      Token(<<"1", "0", "0", "0">>, 105, 50, 119, 60, 90) }

\* the loop of lines 161-175 from possible_connections[i] on: the pairings
\* it commits, each << candidate, target >>
RECURSIVE AssociateFrom(_, _, _, _)
AssociateFrom(connections, i, used, claimed) ==
    IF i > Len(connections) THEN {}
    ELSE LET c == connections[i]
         IN  IF c.x \notin used /\ c.target \notin claimed
             THEN { << c.x, c.target >> }
                    \cup AssociateFrom(connections, i + 1,
                                       used \cup { c.x }, claimed \cup { c.target })
             ELSE AssociateFrom(connections, i + 1, used, claimed)

\* what connect_x_markers_to_lh associates: each << candidate position,
\* system position, is_l >>
Associations(xm, lm, hm) ==
    LET valid == get_valid_x_markers(xm, lm, hm)
        lmu   == [ i \in 1..Len(lm) |-> UpdatedCopy(lm[i]) ]
        hmu   == [ i \in 1..Len(hm) |-> UpdatedCopy(hm[i]) ]
        pairs == AssociateFrom(SortByDistance(ConnectionsFrom(valid, 1, lmu, hmu)),
                               1, {}, {})
    IN  { << valid[p[1]].position, TargetMarker(p[2], lmu, hmu).position,
             p[2][1] = "L" >> : p \in pairs }

NextOrigin ==
    \/ DetectTagged(OriginPositions, OriginTags)
    \/ DetectXDone
    \/ ScanToken(OriginTokens)
    \/ ScanDone
    \/ Classify({ Returned(<<>>) }, PipelineWhiteCounts)
    \/ ClassifyDone
    \/ ConnectBegin
    \/ ConnectStep
    \/ Assemble

SpecOrigin == Init /\ [][NextOrigin]_vars

(***************************************************************************)
(* detect_weather_elements on candidates at and beyond the cutoff.         *)
(***************************************************************************)
\* <<16, 63>> and <<16, 7>> are exactly 100 pixels from <<112, 35>>, and
\* <<10, 63>> is farther than that
CutoffPositions == { <<16, 63>>, <<16, 7>>, <<10, 63>> }

NextCutoff ==
    \/ DetectX(CutoffPositions)
    \/ DetectXDone
    \/ ScanToken(PipelineTokens)
    \/ ScanDone
    \/ ScanRaise
    \/ Classify(PipelineGlyphs, PipelineWhiteCounts)
    \/ ClassifyDone
    \/ ConnectBegin
    \/ ConnectStep
    \/ Assemble

SpecCutoff == Init /\ [][NextCutoff]_vars

(***************************************************************************)
(* main (main_spotter.py, lines 184-252): the loop over mask_files.  What  *)
(* matters of an image here is how many rows its output has and where,     *)
(* inside the try block of lines 205-248, an exception is raised if one    *)
(* is.  A CSV row is represented by the index of the file it came from.    *)
(***************************************************************************)
MaxFiles == 3

MaxRows == 2

Rows(file, n) == [ r \in 1..n |-> file ]

\* lines 206-242 run to the end: every x_point of the output is written
ProcessImage ==
    /\ pc = "batch"
    /\ file_i < mask_files
    /\ \E k \in 0..MaxRows :
           csv_rows' = csv_rows \o Rows(file_i + 1, k)
    /\ attempted' = Append(attempted, [ file |-> file_i + 1, ok |-> TRUE ])
    /\ processed_count' = processed_count + 1
    /\ file_i' = file_i + 1
    /\ UNCHANGED << pc, mask_files, error_count >>
    /\ UNCHANGED << detectVars, hdrVars, loaderVars >>

\* detect_weather_elements raises at line 206 (the image cannot be loaded,
\* a detector fails): the handler of lines 244-248 counts the error
ProcessImageFailsDetecting ==
    /\ pc = "batch"
    /\ file_i < mask_files
    /\ attempted' = Append(attempted, [ file |-> file_i + 1, ok |-> FALSE ])
    /\ error_count' = error_count + 1
    /\ file_i' = file_i + 1
    /\ UNCHANGED << pc, mask_files, processed_count, csv_rows >>
    /\ UNCHANGED << detectVars, hdrVars, loaderVars >>

\* a statement of lines 219-241 raises after j rows of the image were
\* written: a later writerow, the saving of the debug images, or the print of
\* line 241; the same handler counts the error, the rows stay written
ProcessImageFailsWriting ==
    /\ pc = "batch"
    /\ file_i < mask_files
    /\ \E j \in 1..MaxRows :
           csv_rows' = csv_rows \o Rows(file_i + 1, j)
    /\ attempted' = Append(attempted, [ file |-> file_i + 1, ok |-> FALSE ])
    /\ error_count' = error_count + 1
    /\ file_i' = file_i + 1
    /\ UNCHANGED << pc, mask_files, processed_count >>
    /\ UNCHANGED << detectVars, hdrVars, loaderVars >>

\* the loop is over: lines 250-253
BatchDone ==
    /\ pc = "batch"
    /\ file_i = mask_files
    /\ pc' = "batch_done"
    /\ UNCHANGED batchVars
    /\ UNCHANGED << detectVars, hdrVars, loaderVars >>

\* main after mask_files was collected (line 174 returns when it is empty)
InitBatch ==
    /\ pc = "batch"
    /\ img_size \in PipelineSizes
    /\ DetectIdle
    /\ SpotterIdle
    /\ mask_files \in 1..MaxFiles
    /\ file_i = 0
    /\ attempted = <<>>
    /\ processed_count = 0
    /\ error_count = 0
    /\ csv_rows = <<>>
    /\ HeaderIdle
    /\ LoaderIdle

NextBatch ==
    \/ ProcessImage
    \/ ProcessImageFailsDetecting
    \/ ProcessImageFailsWriting
    \/ BatchDone

SpecBatch == InitBatch /\ [][NextBatch]_vars

(***************************************************************************)
(* The header rectangle as each stage that scans the full image decides    *)
(* it: the header mask (main_spotter.py, lines 69-75), the Pressure        *)
(* Locator (LH_spotter.py, line 57, InHeader above) and the isolated scan  *)
(* (x_spotter.py, find_isolated_x_markers).  int(n * 0.pq) is n * pq \div   *)
(* 100 on the sizes used here.                                             *)
(***************************************************************************)
MaskHeightPercent == 11

MaskWidthPercent == 38

IsolatedHeightPercent == 12

IsolatedWidthPercent == 40

IsolatedStride == 5

\* header_mask[y, x] = 0
MaskedOut(pos, size) ==
    /\ pos[2] < IntDiv(size[2] * MaskHeightPercent, 100)
    /\ pos[1] < IntDiv(size[1] * MaskWidthPercent, 100)

\* the continue of the isolated scan
IsolatedSkips(pos, size) ==
    /\ pos[2] < IntDiv(size[2] * IsolatedHeightPercent, 100)
    /\ pos[1] < IntDiv(size[1] * IsolatedWidthPercent, 100)

HeaderSizes == { <<120, 80>>, <<200, 100>>, <<300, 300>> }

\* positions around the edges of the rectangle for each size
ProbeColumns == { 0, 40, 45, 47, 50, 75, 76, 79, 80, 113, 114, 115, 119 }

ProbeRows == { 0, 5, 8, 9, 10, 11, 12, 32, 33, 35, 36, 40 }

InImage(pos, size) == pos[1] < size[1] /\ pos[2] < size[2]

Probe(stage, pos, skipped) == [ stage |-> stage, pos |-> pos, skipped |-> skipped ]

\* the header mask at one pixel
MaskPixel ==
    /\ pc = "header"
    /\ \E x \in ProbeColumns, y \in ProbeRows :
           /\ InImage(<<x, y>>, img_size)
           /\ header_probe' = Probe("mask", <<x, y>>, MaskedOut(<<x, y>>, img_size))
    /\ UNCHANGED << pc, detectVars, batchVars, loaderVars >>

\* the Pressure Locator at one token centre
LocatorCentre ==
    /\ pc = "header"
    /\ \E x \in ProbeColumns, y \in ProbeRows :
           /\ InImage(<<x, y>>, img_size)
           /\ header_probe' = Probe("locator", <<x, y>>, InHeader(<<x, y>>, img_size))
    /\ UNCHANGED << pc, detectVars, batchVars, loaderVars >>

\* the isolated scan at one position of its grid
IsolatedGridPoint ==
    /\ pc = "header"
    /\ \E x \in ProbeColumns, y \in ProbeRows :
           /\ InImage(<<x, y>>, img_size)
           /\ x % IsolatedStride = 0
           /\ y % IsolatedStride = 0
           /\ header_probe' = Probe("isolated", <<x, y>>, IsolatedSkips(<<x, y>>, img_size))
    /\ UNCHANGED << pc, detectVars, batchVars, loaderVars >>

InitHeader ==
    /\ pc = "header"
    /\ img_size \in HeaderSizes
    /\ DetectIdle
    /\ SpotterIdle
    /\ BatchIdle
    /\ HeaderIdle
    /\ LoaderIdle

NextHeader ==
    \/ MaskPixel
    \/ LocatorCentre
    \/ IsolatedGridPoint

SpecHeader == InitHeader /\ [][NextHeader]_vars

(***************************************************************************)
(* x_spotter.detect_small_connected_components: process_components on the  *)
(* components of the standard image, then on those of the sensitive one.   *)
(* A component is what connectedComponentsWithStats reports of it: area,   *)
(* integer centre, bounding box; near_white says whether the standard      *)
(* image has foreground within 15 pixels of its centre.                    *)
(***************************************************************************)
MaxComponents == 2

Component(area, cx, cy, w, h) ==
    [ area |-> area, center |-> << cx, cy >>,
      bbox |-> << cx - w \div 2, cy - h \div 2, w, h >> ]

\* components around every threshold of either pass, in a 120 x 80 image
Components ==
    { Component(a, 60, 40, 4, 4) : a \in { 1, 2, 4, 5, 100, 101, 150, 151 } }
      \cup { Component(20, 60, 40, r[1], r[2]) :
               r \in { <<1, 4>>, <<3, 10>>, <<2, 5>>, <<1, 2>>,
                       <<2, 1>>, <<5, 2>>, <<3, 1>>, <<7, 2>> } }
      \cup { Component(20, cx, 40, 4, 4) : cx \in { 4, 5, 9, 10, 110, 111, 115, 116 } }
      \cup { Component(20, 60, cy, 4, 4) : cy \in { 4, 5, 9, 10, 70, 71, 75, 76 } }
      \cup { Component(20, 39, 34, 4, 4), Component(20, 40, 30, 4, 4),
             Component(20, 40, 40, 4, 4), Component(20, 44, 30, 4, 4) }

KnownOnEntry == { <<>>, << <<30, 30>> >> }

AreaOk(comp, sensitive) ==
    LET min_area == IF sensitive THEN 2 ELSE 5
        max_area == IF sensitive THEN 150 ELSE 100
    IN  ~(comp.area < min_area \/ comp.area > max_area)

\* the standard pass with the sensitive pass's lower bound of 0.3
RatioOkFromThreeTenths(comp, sensitive) ==
    LET w == comp.bbox[3]
        h == comp.bbox[4]
    IN  IF sensitive
        THEN ~(10 * w < 3 * h \/ w > 3 * h)
        ELSE ~(10 * w < 3 * h \/ w > 2 * h)

\* aspect_ratio = w / h within [0.3, 3.0] (sensitive) or [0.5, 2.0]
RatioOk(comp, sensitive) ==
    LET w == comp.bbox[3]
        h == comp.bbox[4]
    IN  IF sensitive
        THEN ~(10 * w < 3 * h \/ w > 3 * h)
        ELSE ~(2 * w < h \/ w > 2 * h)

InsideMargin(comp, sensitive, size) ==
    LET border_margin == IF sensitive THEN 5 ELSE 10
    IN  ~(\/ comp.center[1] < border_margin
          \/ comp.center[1] > size[1] - border_margin
          \/ comp.center[2] < border_margin
          \/ comp.center[2] > size[2] - border_margin)

IsDuplicate(pos, known, threshold) ==
    \E k \in 1..Len(known) : calculate_distance_sq(pos, known[k]) < threshold

AcceptsComponent(comp, sensitive, size, known) ==
    /\ AreaOk(comp, sensitive)
    /\ RatioOk(comp, sensitive)
    /\ InsideMargin(comp, sensitive, size)
    /\ ~IsDuplicate(comp.center, known, IF sensitive THEN 200 ELSE 100)

MarkerType(comp, sensitive, near_white) ==
    IF ~sensitive THEN "X (CC)"
    ELSE IF comp.area < 10 /\ near_white THEN "X (Distorted)"
    ELSE "X (Sensitive)"

ComponentMarker(comp, sensitive, near_white) ==
    [ position |-> comp.center,
      text     |-> MarkerType(comp, sensitive, near_white),
      bbox     |-> comp.bbox ]

\* one iteration of the loop of process_components (lines 81-142)
ProcessComponent ==
    /\ pc = "components"
    /\ comp_i < MaxComponents
    /\ \E comp \in Components, near_white \in BOOLEAN :
           LET known == existing_x_positions \o
                        [ k \in 1..Len(markers_found) |-> markers_found[k].position ]
               accepted == AcceptsComponent(comp, is_sensitive, img_size, known)
           IN  /\ near_white => accepted /\ is_sensitive /\ comp.area < 10
               /\ last_component' = [ component |-> comp, accepted |-> accepted ]
               /\ markers_found' =
                      IF accepted
                      THEN Append(markers_found,
                                  ComponentMarker(comp, is_sensitive, near_white))
                      ELSE markers_found
    /\ comp_i' = comp_i + 1
    /\ UNCHANGED << pc, img_size, existing_x_positions, is_sensitive, cc_x_markers >>
    /\ UNCHANGED << isoVars, pipelineVars, otherVars >>

\* process_components returns: cc_x_markers.extend (lines 144 and 147),
\* then the sensitive pass, then the return of line 149
PassDone ==
    /\ pc = "components"
    /\ cc_x_markers' = cc_x_markers \o markers_found
    /\ markers_found' = <<>>
    /\ last_component' = None
    /\ UNCHANGED comp_i
    /\ IF is_sensitive
       THEN pc' = "components_done" /\ UNCHANGED is_sensitive
       ELSE is_sensitive' = TRUE /\ UNCHANGED pc
    /\ UNCHANGED << img_size, existing_x_positions >>
    /\ UNCHANGED << isoVars, pipelineVars, otherVars >>

InitComponents ==
    /\ pc = "components"
    /\ img_size \in PipelineSizes
    /\ DetectIdle
    /\ BatchIdle
    /\ HeaderIdle
    /\ LoaderIdle
    /\ existing_x_positions \in KnownOnEntry
    /\ is_sensitive = FALSE
    /\ comp_i = 0
    /\ last_component = None
    /\ markers_found = <<>>
    /\ cc_x_markers = <<>>
    /\ known_on_entry = <<>>
    /\ sensitive_mask = {}
    /\ scan_i = 0
    /\ isolated_x_markers = <<>>

NextComponents ==
    \/ ProcessComponent
    \/ PassDone

SpecComponents == InitComponents /\ [][NextComponents]_vars

(***************************************************************************)
(* x_spotter.find_isolated_x_markers: the 10 x 10 neighbourhoods of a grid *)
(* of stride 5, in row-major order.  The mask is the set of its foreground *)
(* pixels.                                                                 *)
(***************************************************************************)
MaxPixels == 2

IsolatedSizes == { <<40, 30>> }

\* foreground pixels the masks are made of
MaskPixels == { <<12, 12>>, <<17, 12>>, <<23, 14>>, <<2, 1>>, <<38, 28>>, <<30, 6>> }

IsolatedKnown == { <<>>, << <<10, 10>> >>, << <<30, 20>> >>, << <<25, 2>>, <<10, 24>> >> }

region_size == 10

IsolatedDuplicateThreshold == 400

\* len(range(0, n, 5))
GridCount(n) == (n + IsolatedStride - 1) \div IsolatedStride

\* the i-th (x, y) of the two nested loops, counted from 0
GridPoint(i, size) ==
    << IsolatedStride * (i % GridCount(size[1])),
       IsolatedStride * (i \div GridCount(size[1])) >>

\* (x1, y1, x2, y2) of lines 169-172
Region(pos, size) ==
    << Max(0, pos[1] - region_size \div 2), Max(0, pos[2] - region_size \div 2),
       Min(size[1], pos[1] + region_size \div 2), Min(size[2], pos[2] + region_size \div 2) >>

\* np.sum(region) > 0
HasForeground(mask, r) ==
    \E p \in mask : r[1] <= p[1] /\ p[1] < r[3] /\ r[2] <= p[2] /\ p[2] < r[4]

RegionCentre(r) == << (r[1] + r[3]) \div 2, (r[2] + r[4]) \div 2 >>

IsolatedMarker(r) ==
    [ position |-> RegionCentre(r),
      text     |-> "X (Isolated)",
      bbox     |-> << r[1], r[2], r[3] - r[1], r[4] - r[2] >> ]

\* a registration that leaves the known positions as they were
KnownAfterUnextended(known, centre) == known

\* existing_x_positions.append((center_x, center_y))
KnownAfter(known, centre) == Append(known, centre)

\* one iteration of the inner loop (lines 165-198)
ScanGridPoint ==
    /\ pc = "isolated"
    /\ scan_i < GridCount(img_size[1]) * GridCount(img_size[2])
    /\ LET pos == GridPoint(scan_i, img_size)
           r == Region(pos, img_size)
           registers ==
               /\ ~IsolatedSkips(pos, img_size)
               /\ HasForeground(sensitive_mask, r)
               /\ ~IsDuplicate(RegionCentre(r), existing_x_positions,
                               IsolatedDuplicateThreshold)
       IN  IF registers
           THEN /\ isolated_x_markers' = Append(isolated_x_markers, IsolatedMarker(r))
                /\ existing_x_positions' = KnownAfter(existing_x_positions, RegionCentre(r))
           ELSE UNCHANGED << isolated_x_markers, existing_x_positions >>
    /\ scan_i' = scan_i + 1
    /\ UNCHANGED << pc, img_size, known_on_entry, sensitive_mask >>
    /\ UNCHANGED << ccVars, pipelineVars, otherVars >>

\* both loops are exhausted: return isolated_x_markers
ScanReturn ==
    /\ pc = "isolated"
    /\ scan_i = GridCount(img_size[1]) * GridCount(img_size[2])
    /\ pc' = "isolated_done"
    /\ UNCHANGED << img_size, xsVars, pipelineVars, otherVars >>

InitIsolated ==
    /\ pc = "isolated"
    /\ img_size \in IsolatedSizes
    /\ DetectIdle
    /\ BatchIdle
    /\ HeaderIdle
    /\ LoaderIdle
    /\ known_on_entry \in IsolatedKnown
    /\ existing_x_positions = known_on_entry
    /\ sensitive_mask \in { m \in SUBSET MaskPixels : Cardinality(m) <= MaxPixels }
    /\ scan_i = 0
    /\ isolated_x_markers = <<>>
    /\ is_sensitive = FALSE
    /\ comp_i = 0
    /\ last_component = None
    /\ markers_found = <<>>
    /\ cc_x_markers = <<>>

NextIsolated ==
    \/ ScanGridPoint
    \/ ScanReturn

SpecIsolated == InitIsolated /\ [][NextIsolated]_vars

(***************************************************************************)
(* loader.py: MetOfficeScraper.get_soup inside get_map_links, which walks  *)
(* the pages of a folder along their next-page links.  A page is a         *)
(* number; what its HTML holds is web[page]: how many map links and which  *)
(* page, if any (0 for none), its next-page link names.  The network is    *)
(* the external collaborator: each session.get ends in one of Outcomes.    *)
(***************************************************************************)
MaxPages == 2

MaxDepth == 3

Pages == 1..MaxPages

Outcomes == { "ok", "connection_error", "http_error" }

\* raise_for_status left out: only a failed connection is an exception
IsConnectionError(outcome) == outcome = "connection_error"

\* session.get or raise_for_status raises a RequestException
IsRequestException(outcome) == outcome \in { "connection_error", "http_error" }

\* BeautifulSoup(response.text, 'html.parser') of a page
Soup(page) == [ links |-> web[page].links, next |-> web[page].next ]

\* lines 37-41: the first request
GetSoupRequest ==
    /\ ld_pc = "request"
    /\ \E outcome \in Outcomes :
           /\ ld_outcomes' = Append(ld_outcomes, outcome)
           /\ IF IsRequestException(outcome)
              THEN /\ ld_pc' = "sleep"
                   /\ UNCHANGED ld_soup
              ELSE /\ ld_pc' = "got"
                   /\ ld_soup' = Soup(ld_url)
    /\ UNCHANGED << web, ld_url, ld_sleeps, ld_links, ld_depth >>
    /\ UNCHANGED << pc, detectVars, batchVars, hdrVars >>

\* lines 42-45: the handler logs the error and sleeps
GetSoupSleep ==
    /\ ld_pc = "sleep"
    /\ ld_sleeps' = ld_sleeps + 1
    /\ ld_pc' = "retry"
    /\ UNCHANGED << web, ld_url, ld_outcomes, ld_soup, ld_links, ld_depth >>
    /\ UNCHANGED << pc, detectVars, batchVars, hdrVars >>

\* lines 46-54: the second request
GetSoupRetry ==
    /\ ld_pc = "retry"
    /\ \E outcome \in Outcomes :
           /\ ld_outcomes' = Append(ld_outcomes, outcome)
           /\ ld_soup' = IF IsRequestException(outcome) THEN None ELSE Soup(ld_url)
    /\ ld_pc' = "got"
    /\ UNCHANGED << web, ld_url, ld_sleeps, ld_links, ld_depth >>
    /\ UNCHANGED << pc, detectVars, batchVars, hdrVars >>

\* get_map_links after get_soup returned (lines 96-124): nothing without a
\* soup; else the page's links, and the call of line 121 on the next page if
\* the page names one.  Nothing is kept of the pages already read.  MaxDepth
\* calls deep the interpreter's recursion limit ends the whole call with a
\* RecursionError.
MapLinksCollect ==
    /\ ld_pc = "got"
    /\ IF ld_soup = None
       THEN /\ ld_pc' = "returned"
            /\ UNCHANGED << ld_url, ld_outcomes, ld_sleeps, ld_links, ld_depth >>
       ELSE /\ ld_links' = ld_links \o [ k \in 1..ld_soup.links |-> << ld_url, k >> ]
            /\ IF ld_soup.next = 0
               THEN /\ ld_pc' = "returned"
                    /\ UNCHANGED << ld_url, ld_outcomes, ld_sleeps, ld_depth >>
               ELSE IF ld_depth < MaxDepth
               THEN /\ ld_url' = ld_soup.next
                    /\ ld_depth' = ld_depth + 1
                    /\ ld_outcomes' = <<>>
                    /\ ld_sleeps' = 0
                    /\ ld_pc' = "request"
               ELSE /\ ld_pc' = "recursion_limit"
                    /\ UNCHANGED << ld_url, ld_outcomes, ld_sleeps, ld_depth >>
    /\ UNCHANGED << web, ld_soup >>
    /\ UNCHANGED << pc, detectVars, batchVars, hdrVars >>

\* get_map_links(folder_url) is called on some page of some web
InitLoader ==
    /\ pc = "loader"
    /\ img_size \in PipelineSizes
    /\ DetectIdle
    /\ SpotterIdle
    /\ BatchIdle
    /\ HeaderIdle
    /\ web \in [ Pages -> [ links : 0..1, next : 0..MaxPages ] ]
    /\ ld_pc = "request"
    /\ ld_url \in Pages
    /\ ld_outcomes = <<>>
    /\ ld_sleeps = 0
    /\ ld_soup = None
    /\ ld_links = <<>>
    /\ ld_depth = 1

NextLoader ==
    \/ GetSoupRequest
    \/ GetSoupSleep
    \/ GetSoupRetry
    \/ MapLinksCollect

SpecLoader == InitLoader /\ [][NextLoader]_vars

\* the call runs on: a request is answered or fails, a sleep ends
SpecLoaderFair == SpecLoader /\ WF_vars(NextLoader)

(***************************************************************************)
(* Properties.                                                             *)
(***************************************************************************)
AllMarkers == l_markers \o h_markers

AllUpdated == l_markers_updated \o h_markers_updated

AssociationStarted == pc \in { "connect_loop", "done" }

\* C1: Association exclusivity.  At every point of an association pass every
\* system holds at most one entry in associated_x, and every commit consumed
\* a candidate no earlier commit had consumed: the entries of all
\* associated_x lists, the commits and the consumed candidates are equally
\* many, so no candidate is in the lists of two systems.
AssociationExclusivity ==
    /\ \A i \in 1..Len(AllUpdated) : Len(AllUpdated[i].associated_x) <= 1
    /\ Cardinality(used_x_markers) = Len(connected_x_markers)
    /\ SumSeq([ i \in 1..Len(AllUpdated) |-> Len(AllUpdated[i].associated_x) ])
           = Len(connected_x_markers)

\* two candidates were committed and at least one pairing was turned down
AssociationExclusivityWitness ==
    /\ pc = "done"
    /\ Len(connected_x_markers) = 2
    /\ Len(possible_connections) > 2

Positions(markers) == [ i \in 1..Len(markers) |-> markers[i].position ]

\* C2: Deduplication is idempotent.  Consolidating the output of
\* consolidate_x_markers again gives the same number of candidates at the
\* same positions.
DeduplicationIdempotent ==
    pc = "consolidated" => Positions(twice_markers) = Positions(once_markers)

\* C3 as stated: at the return of detect_lh_markers there are as many
\* SystemMarkers as PressureReadings.
OneMarkerPerReading ==
    pc = "connect" => Len(l_markers) + Len(h_markers) = Len(pressure_values)

\* the rows img[y1:y2] of the search window of a reading in row py are none
\* exactly when py - 10 = 0 (the images here are more than 10 rows high)
WindowRowsEmpty(reading) ==
    reading.position[2] = LH_ABOVE_PRESSURE_DISTANCE - search_size \div 2

Visited == SubSeq(pressure_values, 1, lh_i)

\* C3 as amended: every visited PressureReading whose search window has a
\* non-empty region yields exactly one SystemMarker, of kind L in l_markers
\* or of kind H in h_markers, carrying the reading's value and position;
\* a reading whose region is empty yields none.
OneMarkerPerNonEmptyWindow ==
    /\ Len(l_markers) + Len(h_markers)
           = Len(SelectSeq(Visited, LAMBDA r : ~WindowRowsEmpty(r)))
    /\ \A i \in 1..Len(l_markers) : l_markers[i].text = "L"
    /\ \A i \in 1..Len(h_markers) : h_markers[i].text = "H"
    /\ \A i \in 1..Len(AllMarkers) :
           \E k \in 1..lh_i :
               /\ ~WindowRowsEmpty(pressure_values[k])
               /\ pressure_values[k].assigned
               /\ AllMarkers[i].value = pressure_values[k].value
               /\ AllMarkers[i].pressure_position = pressure_values[k].position
    /\ \A k \in 1..Len(pressure_values) :
           pressure_values[k].assigned <=> (k <= lh_i /\ ~WindowRowsEmpty(pressure_values[k]))

\* the classifier returned after dropping one reading and keeping another
OneMarkerPerNonEmptyWindowWitness ==
    /\ pc = "connect"
    /\ Len(pressure_values) = 2
    /\ Len(l_markers) + Len(h_markers) = 1

\* the search window of a reading as a quadrilateral
ReadingWindow(reading) ==
    LET win == SearchWindow(reading.position, img_size)
    IN  Quad(win[1], win[2], win[3], win[4])

InsideReadingBox(pos, reading) ==
    \/ is_point_inside_box(pos, ExpandedBox(reading.rect_points))
    \/ is_point_inside_box(pos, ExpandedBox(ReadingWindow(reading)))

\* C4: no candidate inside the expanded bounding box or the expanded search
\* window of any PressureReading, with or without a SystemMarker, is in
\* valid_x_markers or in a system's associated list.
NoCandidateInsideReadingBox ==
    AssociationStarted =>
        \A k \in 1..Len(pressure_values) :
            /\ \A v \in 1..Len(valid_x_markers) :
                   ~InsideReadingBox(valid_x_markers[v].position, pressure_values[k])
            /\ \A i \in 1..Len(AllUpdated) : \A a \in 1..Len(AllUpdated[i].associated_x) :
                   ~InsideReadingBox(AllUpdated[i].associated_x[a].position,
                                     pressure_values[k])

ThreeOrFourDigits(text) ==
    /\ Len(text) \in { 3, 4 }
    /\ \A i \in 1..Len(text) : text[i] \in SeqToSet(DigitChars)

\* a token the Pressure Locator may turn into a reading
PlausiblePressure(tok) ==
    /\ ThreeOrFourDigits(tok.text)
    /\ ParseInt(tok.text) \in 950..1050

\* C5: every PressureReading has a value in [950, 1050] and comes from a
\* token of 3 or 4 digits with that value, and there are no more readings
\* than such tokens: a token that is not 3 or 4 digits, or whose value is
\* out of band, yields no reading.
OnlyPlausiblePressures ==
    /\ \A k \in 1..Len(pressure_values) :
           /\ pressure_values[k].value \in 950..1050
           /\ \E i \in 1..Len(num_results) :
                  /\ PlausiblePressure(num_results[i])
                  /\ ParseInt(num_results[i].text) = pressure_values[k].value
                  /\ num_results[i].bbox = pressure_values[k].bbox
    /\ Len(pressure_values)
           <= Cardinality({ i \in 1..Len(num_results) : PlausiblePressure(num_results[i]) })

\* the token "1200" was scanned after a token that became a reading
OnlyPlausiblePressuresWitness ==
    /\ Len(num_results) = 2
    /\ num_results[2].text = << "1", "2", "0", "0" >>
    /\ Len(pressure_values) = 1

\* the window of a marker is centred at (px, py - 20)
WindowCenteredAbove(marker) ==
    LET x1 == marker.marker_rect_points[1][1]
        y1 == marker.marker_rect_points[1][2]
        x2 == marker.marker_rect_points[3][1]
        y2 == marker.marker_rect_points[3][2]
    IN  /\ x1 + x2 = 2 * marker.pressure_position[1]
        /\ y1 + y2 = 2 * (marker.pressure_position[2] - 20)

\* C6 as stated: the clipped search window of every classified reading is
\* centred at (px, py - 20), however close the reading is to an image edge.
ClippedWindowCentered ==
    \A i \in 1..Len(AllMarkers) : WindowCenteredAbove(AllMarkers[i])

\* the 20x20 square centred at (px, py - 20) lies inside the image
WindowInsideImage(pos) ==
    /\ pos[1] - 10 >= 0
    /\ pos[1] + 10 <= img_size[1]
    /\ pos[2] - 30 >= 0
    /\ pos[2] - 10 <= img_size[2]

\* C6 as amended: for every classified reading whose 20x20 window lies
\* inside the image, the extracted window is centred at (px, py - 20),
\* whatever the image size.
UnclippedWindowCentered ==
    \A i \in 1..Len(AllMarkers) :
        WindowInsideImage(AllMarkers[i].pressure_position)
            => WindowCenteredAbove(AllMarkers[i])

\* a reading near the right edge of the wider image got its whole window
UnclippedWindowCenteredWitness ==
    /\ img_size = <<200, 100>>
    /\ \E i \in 1..Len(AllMarkers) :
           /\ AllMarkers[i].pressure_position = <<115, 55>>
           /\ WindowInsideImage(AllMarkers[i].pressure_position)

\* C7: Nearest-unclaimed association.  Whenever a step commits a candidate
\* to a system, no system unclaimed before that step is strictly closer to
\* the candidate than the system it is committed to.
NearestUnclaimed ==
    [][ Len(connected_x_markers') = Len(connected_x_markers) + 1 =>
          LET cx == connected_x_markers'[Len(connected_x_markers')]
          IN  \A i \in 1..Len(AllUpdated) :
                  ~AllUpdated[i].assigned =>
                      calculate_distance_sq(cx.position, AllUpdated[i].position)
                          >= calculate_distance_sq(cx.position, cx.associated_to) ]_vars

\* a candidate was committed while a farther system within the cutoff was,
\* and stayed, unclaimed
NearestUnclaimedWitness ==
    /\ pc = "done"
    /\ \E c \in 1..Len(connected_x_markers), i \in 1..Len(AllUpdated) :
           /\ ~AllUpdated[i].assigned
           /\ calculate_distance_sq(connected_x_markers[c].position, AllUpdated[i].position)
                  > connected_x_markers[c].distance
           /\ calculate_distance_sq(connected_x_markers[c].position, AllUpdated[i].position)
                  <= 100 * 100

DistanceTo(pos, marker) == calculate_distance_sq(pos, marker.position)

\* C8: Scenario C.  With exactly one valid candidate and two systems within
\* 100px of it at different distances, after the pass the farther system's
\* associated list is empty, and the nearer system, when no other system is
\* as near, holds exactly the candidate.
SingleCandidateGoesToNearer ==
    (pc = "done" /\ Len(valid_x_markers) = 1) =>
        LET pos == valid_x_markers[1].position
        IN  \A i, j \in 1..Len(AllUpdated) :
                (/\ DistanceTo(pos, AllUpdated[i]) < DistanceTo(pos, AllUpdated[j])
                 /\ DistanceTo(pos, AllUpdated[j]) <= 100 * 100)
                => /\ AllUpdated[j].associated_x = <<>>
                   /\ (\A k \in 1..Len(AllUpdated) :
                           k # i => DistanceTo(pos, AllUpdated[i]) < DistanceTo(pos, AllUpdated[k]))
                      => /\ Len(AllUpdated[i].associated_x) = 1
                         /\ AllUpdated[i].associated_x[1].position = pos

\* one valid candidate, two systems within the cutoff, the nearer one a High
\* system and the farther one a Low system
SingleCandidateGoesToNearerWitness ==
    /\ pc = "done"
    /\ Len(valid_x_markers) = 1
    /\ Len(l_markers_updated) = 1
    /\ Len(h_markers_updated) = 1
    /\ DistanceTo(valid_x_markers[1].position, h_markers_updated[1])
           < DistanceTo(valid_x_markers[1].position, l_markers_updated[1])
    /\ DistanceTo(valid_x_markers[1].position, l_markers_updated[1]) <= 100 * 100

OutputSystems == output_data.l_systems \o output_data.h_systems

OutsideEveryBox(pos) ==
    \A k \in 1..Len(pressure_values) : ~InsideReadingBox(pos, pressure_values[k])

DistanceToSystem(pos, system) == calculate_distance_sq(pos, system.center)

\* C9 as stated: Scenario B.  A single candidate outside every expanded box
\* is listed in x_points of the output record of every system within 100px.
SingleCandidateListedByNearSystem ==
    (pc = "done" /\ Len(x_markers) = 1 /\ OutsideEveryBox(x_markers[1].position)) =>
        \A i \in 1..Len(OutputSystems) :
            DistanceToSystem(x_markers[1].position, OutputSystems[i]) <= 100 * 100
                => x_markers[1].position \in SeqToSet(OutputSystems[i].x_points)

\* system i is the nearest to pos, the first in output order among the nearest
NearestSystem(pos, i) ==
    \A k \in 1..Len(OutputSystems) :
        \/ DistanceToSystem(pos, OutputSystems[i]) < DistanceToSystem(pos, OutputSystems[k])
        \/ /\ DistanceToSystem(pos, OutputSystems[i]) = DistanceToSystem(pos, OutputSystems[k])
           /\ i <= k

\* C9 as amended: a single candidate outside every expanded box and within
\* 100px of a system is listed in x_points of the output record of the
\* nearest system (the first in output order of equally near ones), and of
\* that system only.
SingleCandidateListedByNearestSystem ==
    (pc = "done" /\ Len(x_markers) = 1 /\ OutsideEveryBox(x_markers[1].position)) =>
        \A i \in 1..Len(OutputSystems) :
            DistanceToSystem(x_markers[1].position, OutputSystems[i]) <= 100 * 100
                => IF NearestSystem(x_markers[1].position, i)
                   THEN OutputSystems[i].x_points = << x_markers[1].position >>
                   ELSE OutputSystems[i].x_points = <<>>

\* a single candidate with two systems within the cutoff
SingleCandidateListedByNearestSystemWitness ==
    /\ pc = "done"
    /\ Len(x_markers) = 1
    /\ OutsideEveryBox(x_markers[1].position)
    /\ Len(OutputSystems) = 2
    /\ \A i \in 1..2 :
           DistanceToSystem(x_markers[1].position, OutputSystems[i]) <= 100 * 100
    /\ \E i \in 1..2 : OutputSystems[i].x_points = << x_markers[1].position >>

\* the tokens of the last recognition call that can decide the kind
UsableTokens ==
    { i \in 1..Len(ocr_out.results) :
          /\ ocr_out.results[i].text \in { <<"L">>, <<"H">> }
          /\ ocr_out.results[i].prob > 10 }

\* the highest-confidence usable token, the earliest of equally confident ones
MostConfident ==
    CHOOSE i \in UsableTokens :
        \A j \in UsableTokens :
            \/ ocr_out.results[j].prob < ocr_out.results[i].prob
            \/ ocr_out.results[j].prob = ocr_out.results[i].prob /\ i <= j

\* C10: OCR primary path.  When the recognition call of the last classified
\* reading returned a token "L" or "H" with confidence above 0.1, the marker
\* has the character and confidence of the most confident such token (the
\* earliest on a tie), is not flagged heuristic, sits at the window's
\* top-left corner plus the (integer) midpoint of the token's top-left and
\* bottom-right corners, and is filed under its kind.
OcrPrimaryPath ==
    (found_marker # None /\ ~ocr_out.raised /\ UsableTokens # {}) =>
        LET tok == ocr_out.results[MostConfident]
            corner == found_marker.marker_rect_points[1]
        IN  /\ found_marker.text = tok.text[1]
            /\ found_marker.prob = tok.prob
            /\ ~found_marker.pattern_analyzed
            /\ found_marker.position[1] = corner[1] + (tok.bbox[1][1] + tok.bbox[3][1]) \div 2
            /\ found_marker.position[2] = corner[2] + (tok.bbox[1][2] + tok.bbox[3][2]) \div 2
            /\ found_marker \in SeqToSet(IF tok.text[1] = "L" THEN l_markers ELSE h_markers)

\* the call returned two usable tokens of equal confidence
OcrPrimaryPathWitness ==
    /\ found_marker # None
    /\ ~ocr_out.raised
    /\ Cardinality(UsableTokens) = 2
    /\ \A i, j \in UsableTokens : ocr_out.results[i].prob = ocr_out.results[j].prob


\* the place in x_markers of the candidate a pairing is about, for a candidate
\* the Deduplicator passed on with its position unchanged
Discovered(c) ==
    \E k \in 1..Len(x_markers) : x_markers[k].position = valid_x_markers[c.x].position

DiscoveryIndex(c) ==
    MinOf({ k \in 1..Len(x_markers) :
              x_markers[k].position = valid_x_markers[c.x].position })

\* the place in pressure_values of the reading a pairing's system was made for
ScanIndex(c) ==
    LET marker == TargetMarker(c.target, l_markers_updated, h_markers_updated)
    IN  MinOf({ r \in 1..Len(pressure_values) :
                  /\ pressure_values[r].position = marker.pressure_position
                  /\ pressure_values[r].value = marker.value })

\* C11 as stated: of two pairings of equal distance, the one the association
\* loop visits (and so commits) first is the one whose candidate was
\* discovered first and, for the same candidate, whose system's reading was
\* scanned first, whether the systems are Low or High.
TieByDiscoveryOrder ==
    AssociationStarted =>
        \A i, j \in 1..Len(possible_connections) :
            LET ci == possible_connections[i]
                cj == possible_connections[j]
            IN  (i < j /\ ci.dist = cj.dist /\ Discovered(ci) /\ Discovered(cj))
                => \/ DiscoveryIndex(ci) < DiscoveryIndex(cj)
                   \/ /\ DiscoveryIndex(ci) = DiscoveryIndex(cj)
                      /\ ScanIndex(ci) <= ScanIndex(cj)

KindRank(c) == IF c.target[1] = "L" THEN 1 ELSE 2

\* C11: of two pairings of equal distance, the one the association loop
\* visits (and so commits) first is the one whose candidate comes first in
\* the deduplicated list, which is ordered by horizontal coordinate and not
\* by discovery; for the same candidate a Low system comes before a High
\* system, and two systems of one kind come in the order of their list.
TieByBuildOrder ==
    AssociationStarted =>
        /\ \A i, j \in 1..Len(possible_connections) :
               LET ci == possible_connections[i]
                   cj == possible_connections[j]
               IN  (i < j /\ ci.dist = cj.dist)
                   => \/ ci.x < cj.x
                      \/ ci.x = cj.x /\ KindRank(ci) < KindRank(cj)
                      \/ /\ ci.x = cj.x
                         /\ KindRank(ci) = KindRank(cj)
                         /\ ci.target[2] < cj.target[2]
        /\ \A k \in 1..(Len(valid_x_markers) - 1) :
               valid_x_markers[k].position[1] <= valid_x_markers[k + 1].position[1]

\* a candidate as far from a Low system as from a High system whose reading
\* was scanned earlier, committed to the Low system
TieByBuildOrderWitness ==
    /\ pc = "done"
    /\ \E i, j \in 1..Len(possible_connections) :
           LET ci == possible_connections[i]
               cj == possible_connections[j]
           IN  /\ i < j
               /\ ci.dist = cj.dist
               /\ ci.x = cj.x
               /\ ci.is_l
               /\ ~cj.is_l
               /\ ScanIndex(cj) < ScanIndex(ci)
               /\ \E a \in 1..Len(l_markers_updated[ci.target[2]].associated_x) :
                      l_markers_updated[ci.target[2]].associated_x[a].position
                          = valid_x_markers[ci.x].position

\* the clipped search window of a reading spans no row or no column
WindowOffImage(reading) ==
    LET win == SearchWindow(reading.position, img_size)
    IN  win[4] <= win[2] \/ win[3] <= win[1]

\* C13: MalformedRegion.  Every visited PressureReading whose search window
\* has no area inside the image (its centre row is 10 or less) was skipped:
\* it is not marked assigned and no SystemMarker was made for it.
OffImageWindowSkipped ==
    \A k \in 1..lh_i :
        WindowOffImage(pressure_values[k])
        => /\ ~pressure_values[k].assigned
           /\ \A i \in 1..Len(AllMarkers) :
                  AllMarkers[i].pressure_position # pressure_values[k].position

\* C14: RecognitionFailure is never fatal.  When the full-image digit
\* recognition call raised, the scan has zero results, no reading and no
\* marker, and detect_lh_markers goes on to return.  When the L/H recognition
\* call of the last classified reading raised or returned no usable token,
\* the reading's marker is the pixel-density fallback's: flagged heuristic,
\* of confidence 0.5, of kind L or H, and filed under its kind.
RecognitionFailureRecovered ==
    /\ scan_raised =>
           /\ num_results = <<>>
           /\ pressure_values = <<>>
           /\ AllMarkers = <<>>
           /\ pc = "classify" => ENABLED ClassifyDone
    /\ (found_marker # None /\ (ocr_out.raised \/ UsableTokens = {})) =>
           /\ found_marker.pattern_analyzed
           /\ found_marker.prob = 50
           /\ found_marker.text \in { "L", "H" }
           /\ found_marker \in SeqToSet(IF found_marker.text = "L"
                                        THEN l_markers ELSE h_markers)

\* the L/H recognition call of a reading raised and the reading was filed
\* as a Low system
RecognitionFailureRecoveredWitness ==
    /\ pc = "connect"
    /\ ocr_out.raised
    /\ found_marker # None
    /\ found_marker.text = "L"
    /\ found_marker \in SeqToSet(l_markers)

FailedFiles == { attempted[a].file : a \in { b \in 1..Len(attempted) : ~attempted[b].ok } }

\* C15: batch isolation.  The files are attempted once each, in order; every
\* attempt increments exactly one of processed_count and error_count, which
\* add up to the number of files at completion; while files remain the loop
\* can go on whatever happened before; and no row of the CSV comes from a
\* file whose attempt failed.
BatchIsolation ==
    /\ attempted \in [ 1..file_i -> [ file : 1..mask_files, ok : BOOLEAN ] ]
    /\ \A a \in 1..file_i : attempted[a].file = a
    /\ processed_count = Cardinality({ a \in 1..file_i : attempted[a].ok })
    /\ error_count = Cardinality({ a \in 1..file_i : ~attempted[a].ok })
    /\ pc = "batch_done" => processed_count + error_count = mask_files
    /\ (pc = "batch" /\ file_i < mask_files) => ENABLED ProcessImage
    /\ \A r \in 1..Len(csv_rows) : csv_rows[r] \notin FailedFiles

\* C16: NoSystemsFound.  When the Pressure Locator yielded no PressureReading,
\* every later stage can take its step (nothing stops the run), no marker and
\* no pairing is made, every deduplicated candidate is valid and stays
\* unassociated, and the output record has empty l_systems and h_systems.
NoReadingsCompletes ==
    (pressure_values = <<>> /\ pc \in { "classify", "connect", "connect_loop", "done" }) =>
        /\ AllMarkers = <<>>
        /\ pc = "classify" => ENABLED ClassifyDone
        /\ pc = "connect" => ENABLED ConnectBegin
        /\ pc = "connect_loop" => ENABLED Assemble
        /\ AssociationStarted =>
               /\ valid_x_markers = consolidate_x_markers(x_markers)
               /\ possible_connections = <<>>
               /\ connected_x_markers = <<>>
        /\ pc = "done" =>
               /\ output_data.l_systems = <<>>
               /\ output_data.h_systems = <<>>

\* the pipeline ended on an image with candidates and no PressureReading
NoReadingsCompletesWitness ==
    /\ pc = "done"
    /\ pressure_values = <<>>
    /\ Len(x_markers) >= 2
    /\ output_data.l_systems = <<>>
    /\ output_data.h_systems = <<>>

\* C17: header-region convention.  Whatever stage took it, a decision skips
\* the position as header if and only if the position's row is below 11% of
\* the image height and its column is below 38% of the image width.
HeaderConventionShared ==
    header_probe # None =>
        (header_probe.skipped
             <=> /\ header_probe.pos[2] * 100 < img_size[2] * 11
                 /\ header_probe.pos[1] * 100 < img_size[1] * 38)

\* record i of a kind's systems transcribes marker i of that kind
Transcribes(systems, markers, updated, kind) ==
    /\ Len(systems) = Len(markers)
    /\ Len(updated) = Len(markers)
    /\ \A i \in 1..Len(systems) :
           /\ systems[i].text = kind
           /\ markers[i].text = kind
           /\ systems[i].pressure = markers[i].value
           /\ systems[i].center = markers[i].position
           /\ systems[i].pattern_analyzed = markers[i].pattern_analyzed
           /\ systems[i].prob = markers[i].prob
           /\ Len(systems[i].x_points) = Len(updated[i].associated_x)
           /\ \A k \in 1..Len(systems[i].x_points) :
                  systems[i].x_points[k] = updated[i].associated_x[k].position

\* C18: result assembly is a pure transcription.  The output has one record
\* per SystemMarker, in marker-list order per kind; record i carries marker
\* i's kind, pressure value, centre, heuristic flag and confidence, its
\* x_points are the positions of the candidates associated to marker i, in
\* commit order; the top-level record carries both distance constants.
ResultTranscription ==
    pc = "done" =>
        /\ Transcribes(output_data.l_systems, l_markers, l_markers_updated, "L")
        /\ Transcribes(output_data.h_systems, h_markers, h_markers_updated, "H")
        /\ output_data.detection_parameters
               = [ lh_above_pressure_distance |-> 20, max_x_to_lh_distance |-> 100 ]

\* an output with a Low and a High system, one recognised and one heuristic,
\* both with a candidate
ResultTranscriptionWitness ==
    /\ pc = "done"
    /\ Len(output_data.l_systems) = 1
    /\ Len(output_data.h_systems) = 1
    /\ ~output_data.l_systems[1].pattern_analyzed
    /\ output_data.h_systems[1].pattern_analyzed
    /\ Len(output_data.l_systems[1].x_points) = 1
    /\ Len(output_data.h_systems[1].x_points) = 1

Succeeded(outcomes) == \E r \in 1..Len(outcomes) : outcomes[r] = "ok"

\* C19: retry protocol of get_soup.  A call issues at most two requests, the
\* second only after the first failed and after one sleep; once it has
\* returned, it issued one request and did not sleep when the first
\* succeeded, it issued two requests with one sleep between them when the
\* first failed, and it returned the parsed page when a request succeeded
\* and None when both failed.
GetSoupRetriesOnce ==
    /\ Len(ld_outcomes) <= 2
    /\ ld_sleeps <= 1
    /\ ld_pc = "sleep" => Len(ld_outcomes) = 1 /\ ld_sleeps = 0 /\ ~Succeeded(ld_outcomes)
    /\ ld_pc = "retry" => Len(ld_outcomes) = 1 /\ ld_sleeps = 1 /\ ~Succeeded(ld_outcomes)
    /\ ld_pc = "got" =>
           /\ Len(ld_outcomes) >= 1
           /\ ld_outcomes[1] = "ok" => Len(ld_outcomes) = 1 /\ ld_sleeps = 0
           /\ ld_outcomes[1] # "ok" => Len(ld_outcomes) = 2 /\ ld_sleeps = 1
           /\ Succeeded(ld_outcomes) => ld_soup = Soup(ld_url)
           /\ ~Succeeded(ld_outcomes) => ld_soup = None

\* a call whose first request failed on an HTTP status and whose second
\* request succeeded
GetSoupRetriesOnceWitness ==
    /\ ld_pc = "got"
    /\ ld_outcomes = << "http_error", "ok" >>
    /\ ld_sleeps = 1
    /\ ld_soup = Soup(ld_url)

\* the input candidates in horizontal order, and the groups made of them
SortedInput == SortByX(x_markers)

InputGroups == consolidation_groups(x_markers)

GroupOf(a) == CHOOSE g \in 1..Len(InputGroups) : a \in SeqToSet(InputGroups[g])

Linked(a, b) ==
    calculate_distance_sq(SortedInput[a].position, SortedInput[b].position) <= 10 * 10

\* the members of G that a chain of links inside G joins to a member of S
RECURSIVE ReachableWithin(_, _)
ReachableWithin(S, G) ==
    LET T == S \cup { b \in G : \E a \in S : Linked(a, b) }
    IN  IF T = S THEN S ELSE ReachableWithin(T, G)

ChainLinked(a, b) == b \in ReachableWithin({ a }, 1..Len(SortedInput))

Members(g) == [ k \in 1..Len(InputGroups[g]) |-> SortedInput[InputGroups[g][k]] ]

\* C21: group collapse.  Every input candidate belongs to exactly one group,
\* the group sizes add up to the input count, a non-empty input gives a
\* non-empty output; the output candidate of a group sits at the mean of the
\* members' centres, each coordinate truncated to an integer, and has the
\* tag and the bounding box of the group's first member.
GroupCollapse ==
    pc = "consolidated" =>
        /\ \A a \in 1..Len(SortedInput) :
               Cardinality({ g \in 1..Len(InputGroups) : a \in SeqToSet(InputGroups[g]) }) = 1
        /\ SumSeq([ g \in 1..Len(InputGroups) |-> Len(InputGroups[g]) ]) = Len(x_markers)
        /\ x_markers # <<>> => once_markers # <<>>
        /\ Len(once_markers) = Len(InputGroups)
        /\ \A g \in 1..Len(InputGroups) :
               LET n == Len(Members(g))
                   sum_x == SumSeq([ k \in 1..n |-> Members(g)[k].position[1] ])
                   sum_y == SumSeq([ k \in 1..n |-> Members(g)[k].position[2] ])
               IN  /\ once_markers[g].position = << sum_x \div n, sum_y \div n >>
                   /\ once_markers[g].text = Members(g)[1].text
                   /\ once_markers[g].bbox = Members(g)[1].bbox

\* a group of two candidates of different origins whose mean is not a whole
\* number in either coordinate
GroupCollapseWitness ==
    /\ pc = "consolidated"
    /\ \E g \in 1..Len(InputGroups) :
           /\ Len(Members(g)) = 2
           /\ Members(g)[1].text # Members(g)[2].text
           /\ (Members(g)[1].position[1] + Members(g)[2].position[1]) % 2 = 1
           /\ (Members(g)[1].position[2] + Members(g)[2].position[2]) % 2 = 1

\* the systems within 100 pixels of valid candidate v
SystemsInReach(v) ==
    { t \in ({ "L" } \X (1..Len(l_markers_updated)))
              \cup ({ "H" } \X (1..Len(h_markers_updated))) :
          calculate_distance_sq(valid_x_markers[v].position,
                                TargetMarker(t, l_markers_updated, h_markers_updated).position)
              <= 100 * 100 }

\* C22: distance cutoff.  Every committed association joins a candidate and
\* a system at most 100 pixels apart; the pairings considered are exactly
\* the (candidate, system) pairs at most 100 pixels apart, a pair at exactly
\* 100 included; a candidate with no system within 100 pixels is never
\* consumed.
DistanceCutoff ==
    AssociationStarted =>
        /\ \A k \in 1..Len(connected_x_markers) :
               /\ connected_x_markers[k].distance <= 100 * 100
               /\ connected_x_markers[k].distance
                      = calculate_distance_sq(connected_x_markers[k].position,
                                              connected_x_markers[k].associated_to)
        /\ \A v \in 1..Len(valid_x_markers) :
               /\ SystemsInReach(v)
                      = { possible_connections[i].target :
                            i \in { j \in 1..Len(possible_connections) :
                                        possible_connections[j].x = v } }
               /\ SystemsInReach(v) = {} => v \notin used_x_markers

\* a candidate committed at exactly 100 pixels, and a candidate left alone
\* because the only system is farther than that
DistanceCutoffWitness ==
    /\ pc = "done"
    /\ \E k \in 1..Len(connected_x_markers) : connected_x_markers[k].distance = 100 * 100
    /\ \E v \in 1..Len(valid_x_markers) :
           /\ SystemsInReach(v) = {}
           /\ v \notin used_x_markers
    /\ AllUpdated # <<>>

\* C23: fallback classification.  The marker of the last classified reading
\* is the fallback's when and only when the recognition call raised or
\* returned no usable token; it is then Low if the left half's foreground
\* count is strictly more than 1.5 times the right half's and High
\* otherwise, has confidence 0.5, is flagged heuristic, and sits at
\* (px, py - 20), clipped window or not.
FallbackClassification ==
    found_marker # None =>
        /\ found_marker.pattern_analyzed <=> (ocr_out.raised \/ UsableTokens = {})
        /\ found_marker.pattern_analyzed =>
               /\ left_right_white # None
               /\ found_marker.text =
                      IF 2 * left_right_white[1] > 3 * left_right_white[2]
                      THEN "L" ELSE "H"
               /\ found_marker.prob = 50
               /\ found_marker.position
                      = << found_marker.pressure_position[1],
                           found_marker.pressure_position[2] - 20 >>

\* the fallback classified a reading whose window was clipped at the right
\* edge of the image, with exactly 1.5 times as many foreground pixels on
\* the left as on the right
FallbackClassificationWitness ==
    /\ found_marker # None
    /\ found_marker.pattern_analyzed
    /\ left_right_white = << 3, 2 >>
    /\ found_marker.text = "H"
    /\ found_marker.pressure_position[1] + 10 > img_size[1]

\* what a component is compared with: the positions known on entry and the
\* markers found earlier in the pass
KnownBefore == existing_x_positions \o Positions(markers_found)

FarFromKnown(comp, threshold) ==
    \A k \in 1..Len(KnownBefore) :
        calculate_distance_sq(comp.center, KnownBefore[k]) >= threshold

AtLeastFromEdges(comp, margin) ==
    /\ comp.center[1] >= margin
    /\ comp.center[1] <= img_size[1] - margin
    /\ comp.center[2] >= margin
    /\ comp.center[2] <= img_size[2] - margin

\* C24 as stated: a component becomes a candidate of the standard pass
\* exactly when its area is in [5, 100], its aspect ratio in [0.3, 2.0], its
\* centre at least 10 pixels from every edge and at squared distance at
\* least 100 from every known position; of the sensitive pass, with area
\* [2, 150], aspect ratio [0.3, 3.0], margin 5 and squared distance 200.
ComponentThresholdsAsStated ==
    [][ comp_i' = comp_i + 1 =>
          LET comp == last_component'.component
              w == comp.bbox[3]
              h == comp.bbox[4]
          IN  last_component'.accepted <=>
                  IF is_sensitive
                  THEN /\ comp.area >= 2 /\ comp.area <= 150
                       /\ 10 * w >= 3 * h /\ w <= 3 * h
                       /\ AtLeastFromEdges(comp, 5)
                       /\ FarFromKnown(comp, 200)
                  ELSE /\ comp.area >= 5 /\ comp.area <= 100
                       /\ 10 * w >= 3 * h /\ w <= 2 * h
                       /\ AtLeastFromEdges(comp, 10)
                       /\ FarFromKnown(comp, 100) ]_vars

\* C24: the same with the aspect ratio of the standard pass in [0.5, 2.0]: a
\* component of aspect ratio 0.4 is not a candidate of the standard pass.
ComponentThresholds ==
    [][ comp_i' = comp_i + 1 =>
          LET comp == last_component'.component
              w == comp.bbox[3]
              h == comp.bbox[4]
          IN  last_component'.accepted <=>
                  IF is_sensitive
                  THEN /\ comp.area >= 2 /\ comp.area <= 150
                       /\ 10 * w >= 3 * h /\ w <= 3 * h
                       /\ AtLeastFromEdges(comp, 5)
                       /\ FarFromKnown(comp, 200)
                  ELSE /\ comp.area >= 5 /\ comp.area <= 100
                       /\ 2 * w >= h /\ w <= 2 * h
                       /\ AtLeastFromEdges(comp, 10)
                       /\ FarFromKnown(comp, 100) ]_vars

\* the standard pass turned down a component of aspect ratio 0.4 that meets
\* every other condition, after accepting one elsewhere
ComponentThresholdsWitness ==
    /\ pc = "components"
    /\ ~is_sensitive
    /\ Len(markers_found) = 1
    /\ last_component = [ component |-> Component(20, 60, 40, 2, 5), accepted |-> FALSE ]
    /\ \A k \in 1..Len(KnownBefore) :
           calculate_distance_sq(<<60, 40>>, KnownBefore[k]) >= 100

\* C25: no returned candidate is at squared distance less than 400 from a
\* position known on entry or from a candidate registered earlier in the
\* scan, and the caller's list is the list it passed followed by the
\* returned candidates' centres in registration order.
IsolatedSpacing ==
    /\ \A i \in 1..Len(isolated_x_markers) :
           /\ \A k \in 1..Len(known_on_entry) :
                  calculate_distance_sq(isolated_x_markers[i].position,
                                        known_on_entry[k]) >= 400
           /\ \A j \in 1..(i - 1) :
                  calculate_distance_sq(isolated_x_markers[i].position,
                                        isolated_x_markers[j].position) >= 400
    /\ pc = "isolated_done" =>
           existing_x_positions = known_on_entry \o Positions(isolated_x_markers)

\* a scan that turned down the four neighbourhoods of the pixel (12, 12) for
\* the position known on entry, and three of the four neighbourhoods of the
\* pixel (30, 6) for the candidate it registered at the first of them
IsolatedSpacingWitness ==
    /\ pc = "isolated_done"
    /\ known_on_entry = << <<10, 10>> >>
    /\ sensitive_mask = { <<12, 12>>, <<30, 6>> }
    /\ Positions(isolated_x_markers) = << <<30, 5>> >>

\* the candidate list with every origin tag replaced by one tag
Retagged(markers, tag) ==
    [ i \in 1..Len(markers) |-> [ markers[i] EXCEPT !.text = tag ] ]

\* the associations the run has committed
CommittedAssociations ==
    { << connected_x_markers[k].position, connected_x_markers[k].associated_to,
         connected_x_markers[k].is_l >> : k \in 1..Len(connected_x_markers) }

\* C26: origin tags do not influence results.  The groups of the
\* deduplication, the positions of the surviving candidates and the
\* system-to-candidate associations of a run are those of the run on the
\* same positions in the same order under any other tagging.  The groups are
\* compared when the detectors are done, the surviving candidates when the
\* association loop is entered, the associations when the run is done.
OriginIndependence ==
    \/ pc \notin { "scan", "connect_loop", "done" }
    \/ pc = "scan" /\ num_results # <<>>
    \/ pc = "connect_loop" /\ conn_i # 0
    \/ \A tag \in AllTags :
           LET other == Retagged(x_markers, tag)
           IN  /\ pc = "scan" =>
                      /\ consolidation_groups(other) = consolidation_groups(x_markers)
                      /\ Positions(consolidate_x_markers(other))
                             = Positions(consolidate_x_markers(x_markers))
               /\ pc = "connect_loop" =>
                      Positions(get_valid_x_markers(other, l_markers, h_markers))
                          = Positions(valid_x_markers)
               /\ pc = "done" =>
                      Associations(other, l_markers, h_markers) = CommittedAssociations

\* a finished run on candidates of two origins, two of them merged, with an
\* association made
OriginIndependenceWitness ==
    /\ pc = "done"
    /\ \E i, j \in 1..Len(x_markers) : x_markers[i].text # x_markers[j].text
    /\ Len(valid_x_markers) < Len(x_markers)
    /\ connected_x_markers # <<>>

GreedyMaximality ==
    pc = "done" =>
        \A v \in 1..Len(valid_x_markers) :
            v \notin used_x_markers =>
                \A t \in SystemsInReach(v) :
                    LET system == TargetMarker(t, l_markers_updated, h_markers_updated)
                    IN  /\ system.assigned
                        /\ Len(system.associated_x) = 1

\* a candidate left unassociated although a system is within 100 pixels of
\* it: another candidate claimed that system
GreedyMaximalityWitness ==
    /\ pc = "done"
    /\ \E v \in 1..Len(valid_x_markers) :
           /\ v \notin used_x_markers
           /\ SystemsInReach(v) # {}

\* C29: search-window bounds.  For every visited PressureReading whose
\* centre lies inside the image, the clipped window satisfies
\* 0 <= x1 <= x2 <= width and 0 <= y1 <= y2 <= height, and the region read
\* from the image is the part of the 20x20 window inside the image: y2 - y1
\* rows and x2 - x1 columns.
SearchWindowBounds ==
    \A k \in 1..lh_i :
        LET pos == pressure_values[k].position
            win == SearchWindow(pos, img_size)
        IN  (0 <= pos[1] /\ pos[1] < img_size[1] /\ 0 <= pos[2] /\ pos[2] < img_size[2])
            => /\ 0 <= win[1] /\ win[1] <= win[3] /\ win[3] <= img_size[1]
               /\ 0 <= win[2] /\ win[2] <= win[4] /\ win[4] <= img_size[2]
               /\ RoiShape(win, img_size) = << win[4] - win[2], win[3] - win[1] >>

\* C30: pagination termination.  Every call of get_map_links returns,
\* whatever the next-page links of the folder pages, and no link of a page
\* is collected twice.
PaginationTerminates ==
    /\ <>(ld_pc = "returned")
    /\ [](\A i, j \in 1..Len(ld_links) : i # j => ld_links[i] # ld_links[j])

====
